---- MODULE Spec2Model ----
(***************************************************************************)
(* Model of 2ME.py, the multi-source domain availability checker.          *)
(*                                                                         *)
(* Strings are TLA+ strings (Len, \o and SubSeq act on them as Python's    *)
(* len, + and slicing).  Python's None is the string "None", which is also *)
(* what an f-string prints for it.  A DomainStatus object is a record; the *)
(* objects live in the heap ds, indexed by the position of their domain in *)
(* the input list, and lists of objects hold those indices.                *)
(***************************************************************************)
EXTENDS Integers, Sequences, FiniteSets, TLC

VARIABLES
    domains,            \* main: the input list of domain strings
    methods_sequence,   \* create_methods_sequence: names of the per-domain checks, in order
    batch_methods,      \* create_methods_sequence: names of the batch checks, in order
    ds,                 \* heap of DomainStatus objects, one per input entry
    task_pc,            \* process_domain: per task, index of the next method of methods_sequence
    trace,              \* history: per record, the per-domain checks run on it, with their results
    domain_statuses,    \* main: the objects collected so far, in completion order
    pc,                 \* main: "single", "batch", "done", or "aborted" by an exception
                        \* ("direct", "checks" in the harnesses)
    stage,              \* main: index into batch_methods of the current batch check
    work,               \* the batch_domains list handed to the current batch check
    bstate,             \* local state of the running batch check
    error_messages,     \* the global error list
    barrier_avail,      \* history: every record's availability when the previous stage finished
    sorted_domain_statuses, \* main: the sorted list
    last_call           \* history (call harness): the last DomainStatus method call

vars == <<domains, methods_sequence, batch_methods, ds, task_pc, trace, domain_statuses,
          pc, stage, work, bstate, error_messages, barrier_avail, sorted_domain_statuses,
          last_call>>

-----------------------------------------------------------------------------
(* Bounds of the model *)

\* longest input list
MaxDomains == 2
\* longest --methods list (the default, all six methods, is always included)
MaxMethods == 2
\* most items in one NCAPI response
MaxItems == 2
\* most event/data pairs in one Gandi stream
MaxEvents == 2
\* most calls in one run of the DomainStatus call harness
MaxCalls == 3
MaxChecks == 2
MaxSorted == 3
\* batch size of the batch harness, standing for the 50 of the code so that a
\* working set of MaxDomains records has more than one batch
MaxBatch == 1
\* longest list of the presentation harness
MaxShown == 2

-----------------------------------------------------------------------------
(* Python values and string helpers *)

PyNone == "None"

\* Python truthiness of a string-or-None value
Truthy(x) == x # PyNone /\ x # ""

\* dict.get(k, default)
Get(d, k, default) == IF k \in DOMAIN d THEN d[k] ELSE default

EmptyDict == [k \in {} |-> ""]

RECURSIVE Repeat(_, _)
Repeat(s, n) == IF n = 0 THEN "" ELSE s \o Repeat(s, n - 1)

\* sub in s
Contains(s, sub) ==
    {i \in 1..(Len(s) - Len(sub) + 1) : SubSeq(s, i, i + Len(sub) - 1) = sub} # {}

\* s.endswith(suffix)
EndsWith(s, suffix) ==
    /\ Len(s) >= Len(suffix)
    /\ SubSeq(s, Len(s) - Len(suffix) + 1, Len(s)) = suffix

\* s.replace(',', '.')
RECURSIVE ReplaceComma(_)
ReplaceComma(s) ==
    IF s = "" THEN ""
    ELSE (IF SubSeq(s, 1, 1) = "," THEN "." ELSE SubSeq(s, 1, 1))
         \o ReplaceComma(SubSeq(s, 2, Len(s)))

-----------------------------------------------------------------------------
(* DomainStatus *)

REASON_CAP == 140
REASON_CUT == 137

AvailTrue == "True"
AvailFalse == "False"
AvailPremium == "Premium"
Conclusive == {AvailTrue, AvailPremium, AvailFalse}

\* DomainStatus.__init__
DomainStatus(domain) ==
    [domain |-> domain, is_available |-> PyNone, price |-> "N/A", reason |-> "",
     tld_info |-> EmptyDict, restriction_flag |-> FALSE, checked_apis |-> <<>>]

\* mutant of Cap: the cut keeps 140 characters
Cap_cut140(s) == IF Len(s) > REASON_CAP THEN SubSeq(s, 1, REASON_CAP) \o "..." ELSE s

\* "Cap the reason to 140 characters, add '...' if truncated"
Cap(s) == IF Len(s) > REASON_CAP THEN SubSeq(s, 1, REASON_CUT) \o "..." ELSE s

\* add_reason: the string built before the cap
add_reason_combined(r, reason, method_name) ==
    LET reason_str == IF method_name # "" THEN reason \o " (" \o method_name \o ")"
                      ELSE reason
    IN  IF r.reason # "" THEN r.reason \o "; " \o reason_str ELSE reason_str

\* mutant of add_reason: appends whatever the availability is
add_reason_always(r, reason, method_name) ==
    [r EXCEPT !.reason = Cap(add_reason_combined(r, reason, method_name))]

\* mutant of add_reason: the note replaces the reason
add_reason_overwrites(r, reason, method_name) ==
    IF r.is_available = PyNone
    THEN [r EXCEPT !.reason = Cap(add_reason_combined([r EXCEPT !.reason = ""], reason,
                                                      method_name))]
    ELSE r

add_reason(r, reason, method_name) ==
    IF r.is_available = PyNone
    THEN [r EXCEPT !.reason = Cap(add_reason_combined(r, reason, method_name))]
    ELSE r

\* set_availability: the canned phrase or custom reason, with the method name
set_availability_reason_str(is_available, method_name, custom_reason) ==
    IF Truthy(custom_reason) THEN custom_reason
    ELSE (CASE is_available = AvailTrue -> "Domain is available"
            [] is_available = AvailPremium -> "Domain is premium and available"
            [] is_available = AvailFalse -> "Domain is registered"
            [] OTHER -> "All data was inconclusive")
         \o (IF method_name # "" THEN " (" \o method_name \o ")" ELSE "")

\* set_availability: the string built before the cap
set_availability_combined(r, is_available, method_name, custom_reason) ==
    LET reason_str == set_availability_reason_str(is_available, method_name, custom_reason)
    IN  IF /\ is_available = AvailTrue
           /\ r.restriction_flag
           /\ Get(r.tld_info, "restrictions", "") # ""
        THEN reason_str \o "; " \o Get(r.tld_info, "restrictions", "")
        ELSE reason_str

\* mutant of set_availability_price: any truthy price is stored
set_availability_price_unguarded(r, price) == IF Truthy(price) THEN price ELSE r.price

\* set_availability: the price kept or replaced
set_availability_price(r, price) ==
    IF Truthy(price) /\ price \notin {"N/A", "Unknown"} THEN price ELSE r.price

\* mutant of set_availability: the new reason is appended to the old one
set_availability_appends(r, is_available, price, method_name, custom_reason) ==
    [r EXCEPT !.is_available = is_available,
              !.price = set_availability_price(r, price),
              !.reason = Cap((IF r.reason # "" THEN r.reason \o "; " ELSE "")
                             \o set_availability_combined(r, is_available, method_name,
                                                          custom_reason))]

set_availability(r, is_available, price, method_name, custom_reason) ==
    [r EXCEPT !.is_available = is_available,
              !.price = set_availability_price(r, price),
              !.reason = Cap(set_availability_combined(r, is_available, method_name,
                                                       custom_reason))]

set_reason(r, reason) == [r EXCEPT !.reason = Cap(reason)]

set_tld_info(r, tld_info) ==
    LET restrictions == Get(tld_info, "restrictions", "")
        average_price == Get(tld_info, "average_price", "N/A")
    IN  [r EXCEPT !.tld_info = tld_info,
                  !.restriction_flag =
                      IF restrictions # "" /\ restrictions # "No known restrictions"
                      THEN TRUE ELSE @,
                  !.price = IF average_price \notin {"N/A", "Unknown"}
                            THEN ReplaceComma(average_price) ELSE @]

-----------------------------------------------------------------------------
(* The TLD rule table (tlds.json as load_tlds returns it): one plain suffix  *)
(* with a comma in its price, one restricted suffix with a short maximum    *)
(* length, one suffix that cannot be registered and carries a long          *)
(* restriction text, one whose scraped fields are all '?', and the suffix   *)
(* of the DNS parking placeholder.                                          *)

LongRestriction == "Registration is limited to " \o Repeat("government bodies, ", 6)

tlds_dict ==
    [com |-> [name |-> "com", can_register |-> TRUE, average_price |-> "9,99",
              min_length |-> "1", max_length |-> "63",
              restrictions |-> "No known restrictions"],
     nl  |-> [name |-> "nl", can_register |-> TRUE, average_price |-> "7.50",
              min_length |-> "2", max_length |-> "3",
              restrictions |-> "Local presence required"],
     gov |-> [name |-> "gov", can_register |-> FALSE, average_price |-> "Not available",
              min_length |-> "?", max_length |-> "?",
              restrictions |-> LongRestriction],
     dev |-> [name |-> "dev", can_register |-> TRUE, average_price |-> "?",
              min_length |-> "?", max_length |-> "?", restrictions |-> "?"],
     ws  |-> [name |-> "ws", can_register |-> TRUE, average_price |-> "25.00",
              min_length |-> "1", max_length |-> "63",
              restrictions |-> "No known restrictions"]]

-----------------------------------------------------------------------------
(* More string helpers: str.lower, int(), str(int), rsplit *)

UpperCase == "ABCDEFGHIJKLMNOPQRSTUVWXYZ"
LowerCase == "abcdefghijklmnopqrstuvwxyz"
Digits == "0123456789"

\* 1-based position of the one-character string c in alphabet
IndexIn(alphabet, c) == CHOOSE k \in 1..Len(alphabet) : SubSeq(alphabet, k, k) = c

Chars(alphabet) == {SubSeq(alphabet, k, k) : k \in 1..Len(alphabet)}

\* the lower-case letter of each upper-case letter, the value of each digit
LowerOf == [c \in Chars(UpperCase) |->
               SubSeq(LowerCase, IndexIn(UpperCase, c), IndexIn(UpperCase, c))]
DigitOf == [c \in Chars(Digits) |-> IndexIn(Digits, c) - 1]

\* s.lower()
RECURSIVE LowerFrom(_, _)
LowerFrom(s, k) ==
    IF k > Len(s) THEN ""
    ELSE (IF SubSeq(s, k, k) \in DOMAIN LowerOf THEN LowerOf[SubSeq(s, k, k)]
          ELSE SubSeq(s, k, k))
         \o LowerFrom(s, k + 1)

Lower(s) == LowerFrom(s, 1)

IsDigits(s) == s # "" /\ \A k \in 1..Len(s) : SubSeq(s, k, k) \in DOMAIN DigitOf

\* int(s) for a string of decimal digits
RECURSIVE DigitsValue(_)
DigitsValue(s) ==
    IF s = "" THEN 0
    ELSE 10 * DigitsValue(SubSeq(s, 1, Len(s) - 1)) + DigitOf[SubSeq(s, Len(s), Len(s))]

\* str(n) for n >= 0
RECURSIVE IntToStr(_)
IntToStr(n) ==
    IF n < 10 THEN SubSeq(Digits, n + 1, n + 1)
    ELSE IntToStr(n \div 10) \o SubSeq(Digits, (n % 10) + 1, (n % 10) + 1)

\* position of the last '.' of s, 0 when there is none
LastDot(s) ==
    IF \E k \in 1..Len(s) : SubSeq(s, k, k) = "."
    THEN CHOOSE k \in 1..Len(s) :
             /\ SubSeq(s, k, k) = "."
             /\ \A j \in (k + 1)..Len(s) : SubSeq(s, j, j) # "."
    ELSE 0

-----------------------------------------------------------------------------
(* The per-domain checks.  Each run operator gives the record after the     *)
(* check and the value the check returns.                                   *)

\* TLDCheck.run: int(max_length), None on ValueError
TLD_max_length(tld_info) ==
    LET v == Get(tld_info, "max_length", "Unknown")
    IN  IF IsDigits(v) THEN DigitsValue(v) ELSE 0

\* TLDCheck.run: the length issues, joined by ', '
TLD_length_issues(sld, tld_info) ==
    LET min_length == 1
        max_length == TLD_max_length(tld_info)
        short == IF min_length # 0 /\ Len(sld) < min_length
                 THEN <<"too short (min " \o IntToStr(min_length) \o ")">> ELSE <<>>
        long == IF max_length # 0 /\ Len(sld) > max_length
                THEN <<"too long (max " \o IntToStr(max_length) \o ")">> ELSE <<>>
        issues == short \o long
    IN  IF Len(issues) = 0 THEN ""
        ELSE IF Len(issues) = 1 THEN issues[1]
        ELSE issues[1] \o ", " \o issues[2]

\* TLDCheck.run: the record after the check and the value returned
TLDCheck_steps(r) ==
    LET domain == r.domain
        dot == LastDot(domain)
        sld == SubSeq(domain, 1, dot - 1)
        tld == Lower(SubSeq(domain, dot + 1, Len(domain)))
        r1 == set_tld_info(r, EmptyDict)
        tld_info == IF tld \in DOMAIN tlds_dict THEN tlds_dict[tld] ELSE EmptyDict
        r2 == set_tld_info(r1, tld_info)
        issues == TLD_length_issues(sld, tld_info)
    IN  IF dot = 0
        THEN [ds |-> set_availability(r, AvailFalse, PyNone, "TLDCheck",
                                      "Invalid domain format"),
              ret |-> TRUE]
        ELSE IF tld_info = EmptyDict
        THEN [ds |-> set_availability(r1, AvailFalse, PyNone, "TLDCheck",
                                      "TLD not recognized"),
              ret |-> TRUE]
        ELSE IF ~Get(tld_info, "can_register", FALSE)
        THEN [ds |-> set_availability(r2, AvailFalse, PyNone, "TLDCheck",
                        "TLD cannot be registered"
                        \o (IF Get(tld_info, "restrictions", "") # ""
                            THEN "; " \o Get(tld_info, "restrictions", "") ELSE "")),
              ret |-> TRUE]
        ELSE IF issues # ""
        THEN [ds |-> set_availability(r2, AvailFalse, PyNone, "TLDCheck", issues),
              ret |-> TRUE]
        ELSE [ds |-> r2, ret |-> FALSE]

\* mutant of TLDCheck_run: every path returns False ("proceed to next method")
TLDCheck_run_proceeds(r) == [ds |-> TLDCheck_steps(r).ds, ret |-> FALSE]

TLDCheck_run(r) == TLDCheck_steps(r)

\* DNSCheck.run.  answers gives, for each record type, what dns.resolver.resolve
\* does: "found" (an answer), "parking" (an answer whose first address is
\* 64.70.19.203), "empty" (an answer that is falsy), "noanswer" (NoAnswer, NXDOMAIN
\* or Timeout is raised) or "error" (another exception).  The try block encloses the whole loop, so the first
\* exception ends it.
record_types == <<"A", "MX", "NS">>
DnsOutcomes == {"found", "parking", "empty", "noanswer", "error"}

RECURSIVE DNSCheck_loop(_, _, _)
DNSCheck_loop(r, answers, k) ==
    IF k > Len(record_types) THEN [ds |-> r, ret |-> FALSE]
    ELSE LET record_type == record_types[k]
             a == answers[k]
         IN  IF a \in {"noanswer", "error"} THEN [ds |-> r, ret |-> FALSE]
             ELSE IF a = "empty" THEN DNSCheck_loop(r, answers, k + 1)
             ELSE IF /\ EndsWith(r.domain, ".ws")
                     /\ record_type = "A"
                     /\ a = "parking"
             THEN [ds |-> r, ret |-> FALSE]
             ELSE [ds |-> set_availability(r, AvailFalse, PyNone, "DNSCheck",
                              record_type \o " records found (domain is registered)"),
                   ret |-> TRUE]

DNSCheck_run(r, answers) == DNSCheck_loop(r, answers, 1)

\* WHOISCheck.run.  response is what whois.whois does: kind "text" returns a
\* record with that text and, when registered, a creation date or registrar;
\* kind "raise" raises an exception with that message.
WhoisTextAvailable ==
    {"available for purchase", "this domain is available for registration",
     "domain status: available"}
WhoisTextDisallowed ==
    {"this domain is not allowed", "domain cannot be registered", "prohibited string"}
WhoisErrorAvailable ==
    {"no match for", "not found", "no data found", "available for purchase",
     "this domain is available for registration", "domain status: available",
     "data not found", "is free"}

AnyKeyword(keywords, text) == {k \in keywords : Contains(text, k)} # {}

WHOISCheck_effect(r, response) ==
    IF response.kind = "text"
    THEN IF response.text # ""
         THEN LET raw_text == Lower(response.text)
              IN  IF AnyKeyword(WhoisTextAvailable, raw_text)
                  THEN set_availability(r, AvailTrue, PyNone, "WHOISCheck", PyNone)
                  ELSE IF AnyKeyword(WhoisTextDisallowed, raw_text)
                  THEN set_availability(r, AvailFalse, PyNone, "WHOISCheck",
                                        "Domain is not allowed or reserved")
                  ELSE IF response.registered
                  THEN set_availability(r, AvailFalse, PyNone, "WHOISCheck", PyNone)
                  ELSE add_reason(r, "WHOIS data inconclusive", "WHOISCheck")
         ELSE add_reason(r, "WHOIS data empty", "WHOISCheck")
    ELSE LET error_message == Lower(response.text)
         IN  IF AnyKeyword(WhoisErrorAvailable, error_message)
             THEN set_availability(r, AvailTrue, PyNone, "WHOISCheck", PyNone)
             ELSE IF r.is_available = PyNone
             THEN add_reason(r, "WHOIS error", "WHOISCheck")
             ELSE r

\* mutant of WHOISCheck_run: an exception whose message has no 'available'
\* keyword is raised again
WHOISCheck_run_reraises(r, response) ==
    LET r1 == WHOISCheck_effect(r, response)
    IN  IF response.kind = "raise" /\ ~AnyKeyword(WhoisErrorAvailable, Lower(response.text))
        THEN [ds |-> r, ret |-> FALSE, raised |-> TRUE]
        ELSE [ds |-> r1, ret |-> r1.is_available # PyNone, raised |-> FALSE]

\* ret is the value returned; raised says whether an exception leaves run: the
\* try block encloses the lookup and every use of its result, and the handler's
\* own calls do not raise
WHOISCheck_run(r, response) ==
    LET r1 == WHOISCheck_effect(r, response)
    IN  [ds |-> r1, ret |-> r1.is_available # PyNone, raised |-> FALSE]

-----------------------------------------------------------------------------
(* create_methods_sequence and process_domain *)

available_methods == <<"tld", "dns", "whois", "ncapi", "gandi", "domainr">>
SingleMethods == {"tld", "dns", "whois"}
BatchMethods == {"ncapi", "gandi", "domainr"}

Range(f) == {f[k] : k \in DOMAIN f}

\* create_methods_sequence.  methods_arg and exclude_methods_arg are the lists
\* the two options split into, empty when the option is absent or ''.
create_methods_sequence(methods_arg, exclude_methods_arg) ==
    LET IsKnown(m) == m \in Range(available_methods)
        NotExcluded(m) == m \notin Range(exclude_methods_arg)
        IsSingle(m) == m \in SingleMethods
        IsBatch(m) == m \in BatchMethods
        chosen == IF methods_arg # <<>> THEN SelectSeq(methods_arg, IsKnown)
                  ELSE available_methods
        use_methods == IF exclude_methods_arg # <<>>
                       THEN SelectSeq(chosen, NotExcluded) ELSE chosen
    IN  [methods_sequence |-> SelectSeq(use_methods, IsSingle),
         batch_methods |-> SelectSeq(use_methods, IsBatch)]

\* mutant of process_domain_break: the loop never breaks
process_domain_break_never(availability_determined, is_available) == FALSE

\* mutant of process_domain_break: the loop breaks on any verdict
process_domain_break_any(availability_determined, is_available) ==
    /\ availability_determined
    /\ is_available # PyNone

\* process_domain: whether the loop over methods_sequence breaks after a check
process_domain_break(availability_determined, is_available) ==
    /\ availability_determined
    /\ is_available # PyNone
    /\ is_available = AvailFalse

N == Len(domains)
Finished(i) == task_pc[i] > Len(methods_sequence)
Collected(i) == i \in Range(domain_statuses)

\* mutant of AfterRun: the task writes to the first record that carries its
\* domain string instead of the record it created
AfterRun_by_name(i, method, result) ==
    /\ ds' = [ds EXCEPT ![CHOOSE k \in 1..Len(domains) :
                              /\ domains[k] = domains[i]
                              /\ \A m \in 1..(k - 1) : domains[m] # domains[i]] = result.ds]
    /\ trace' = [trace EXCEPT ![i] = Append(@, [method |-> method, ret |-> result.ret,
                                                is_available |-> result.ds.is_available])]
    /\ task_pc' = [task_pc EXCEPT ![i] =
                       IF process_domain_break(result.ret, result.ds.is_available)
                       THEN Len(methods_sequence) + 1 ELSE @ + 1]
    /\ UNCHANGED <<domains, methods_sequence, batch_methods, domain_statuses, pc, stage,
                   work, bstate, error_messages, barrier_avail, sorted_domain_statuses,
                   last_call>>

\* one iteration of process_domain's loop: the check `method` ran with `result`
AfterRun(i, method, result) ==
    /\ ds' = [ds EXCEPT ![i] = result.ds]
    /\ trace' = [trace EXCEPT ![i] = Append(@, [method |-> method, ret |-> result.ret,
                                                is_available |-> result.ds.is_available])]
    /\ task_pc' = [task_pc EXCEPT ![i] =
                       IF process_domain_break(result.ret, result.ds.is_available)
                       THEN Len(methods_sequence) + 1 ELSE @ + 1]
    /\ UNCHANGED <<domains, methods_sequence, batch_methods, domain_statuses, pc, stage,
                   work, bstate, error_messages, barrier_avail, sorted_domain_statuses,
                   last_call>>

\* What the resolver can answer.  dnspython raises NoAnswer where there is no
\* record instead of returning an empty answer, so in a run of main the lookup of
\* the first record type always ends the loop and the other types are not queried
\* (listed "empty" here).
DnsAnswers == [1..Len(record_types) -> DnsOutcomes]
QueriedDnsAnswers ==
    {a \in DnsAnswers : a[1] # "empty" /\ \A j \in 2..Len(record_types) : a[j] = "empty"}

\* What the WHOIS lookup can do in a run of main: a text with an 'available'
\* keyword, one with registration data, one with neither, an error whose message
\* has an 'available' keyword and one whose message has none.
WhoisResponses ==
    {[kind |-> "text", text |-> "Domain Status: Available", registered |-> FALSE],
     [kind |-> "text", text |-> "No match for domain", registered |-> TRUE],
     [kind |-> "text", text |-> "No match for domain", registered |-> FALSE],
     [kind |-> "raise", text |-> "No match for domain", registered |-> FALSE],
     [kind |-> "raise", text |-> "Prohibited string", registered |-> FALSE]}

RunTLD(i) ==
    /\ pc = "single" /\ ~Finished(i)
    /\ methods_sequence[task_pc[i]] = "tld"
    /\ AfterRun(i, "tld", TLDCheck_run(ds[i]))

RunDNS(i, answers) ==
    /\ pc = "single" /\ ~Finished(i)
    /\ methods_sequence[task_pc[i]] = "dns"
    /\ AfterRun(i, "dns", DNSCheck_run(ds[i], answers))

\* An exception that leaves a check's run leaves process_domain; main's
\* future.result() raises it again and the run ends before the sort.
RunWHOIS(i, response) ==
    /\ pc = "single" /\ ~Finished(i)
    /\ methods_sequence[task_pc[i]] = "whois"
    /\ IF WHOISCheck_run(ds[i], response).raised
       THEN /\ pc' = "aborted"
            /\ UNCHANGED <<domains, methods_sequence, batch_methods, ds, task_pc, trace,
                           domain_statuses, stage, work, bstate, error_messages,
                           barrier_avail, sorted_domain_statuses, last_call>>
       ELSE AfterRun(i, "whois", WHOISCheck_run(ds[i], response))

\* main: as_completed yields a finished task and its record is appended
Collect(i) ==
    /\ pc = "single" /\ Finished(i) /\ ~Collected(i)
    /\ domain_statuses' = Append(domain_statuses, i)
    /\ UNCHANGED <<domains, methods_sequence, batch_methods, ds, task_pc, trace, pc, stage,
                   work, bstate, error_messages, barrier_avail, sorted_domain_statuses,
                   last_call>>

Availabilities == [i \in 1..N |-> ds[i].is_available]

\* main: the pool of the per-domain stage is left, every task collected
SingleStageDone ==
    /\ pc = "single" /\ Len(domain_statuses) = N
    /\ pc' = "batch"
    /\ stage' = 1
    /\ barrier_avail' = Availabilities
    /\ UNCHANGED <<domains, methods_sequence, batch_methods, ds, task_pc, trace,
                   domain_statuses, work, bstate, error_messages, sorted_domain_statuses,
                   last_call>>

-----------------------------------------------------------------------------
(* main: the batch stages *)

\* the local variable batch_size of NCAPICheck.run and of GandiAPICheck.run; the
\* local state of a running check holds it as bstate.batch_size
batch_size == 50

\* mutant of batch_filter: the name of the domainr stage is not matched and the
\* stage is handed every record
batch_filter_domainr_unmatched(method_name, is_available) ==
    CASE method_name = "ncapi" -> is_available = AvailTrue \/ is_available = PyNone
      [] method_name = "gandi" -> is_available = PyNone
      [] OTHER -> TRUE

\* mutant of batch_filter: no stage filters
batch_filter_none(method_name, is_available) == TRUE

\* mutant of batch_filter: gandi is handed what ncapi is handed
batch_filter_gandi_as_ncapi(method_name, is_available) ==
    CASE method_name = "ncapi" -> is_available = AvailTrue \/ is_available = PyNone
      [] method_name = "gandi" -> is_available = AvailTrue \/ is_available = PyNone
      [] method_name = "domainr" -> is_available = PyNone
      [] OTHER -> TRUE

\* main: which records a batch check is handed, by their availability
batch_filter(method_name, is_available) ==
    CASE method_name = "ncapi" -> is_available = AvailTrue \/ is_available = PyNone
      [] method_name = "gandi" -> is_available = PyNone
      [] method_name = "domainr" -> is_available = PyNone
      [] OTHER -> TRUE

batch_domains(method_name) ==
    LET Keep(i) == batch_filter(method_name, ds[i].is_available)
    IN  SelectSeq(domain_statuses, Keep)

\* mutant of FirstMatch: the object is looked up among all the records of the
\* run instead of the list the check was handed
FirstMatch_all_records(w, domain) ==
    IF \E k \in DOMAIN ds : ds[k].domain = domain
    THEN CHOOSE k \in DOMAIN ds :
             /\ ds[k].domain = domain
             /\ \A j \in DOMAIN ds : j < k => ds[j].domain # domain
    ELSE 0

\* next((d for d in domain_statuses if d.domain == domain), None), over the list
\* the check was handed: the first object with that domain, 0 for None
FirstMatch(w, domain) ==
    IF \E k \in 1..Len(w) : ds[w[k]].domain = domain
    THEN w[CHOOSE k \in 1..Len(w) :
               /\ ds[w[k]].domain = domain
               /\ \A j \in 1..(k - 1) : ds[w[j]].domain # domain]
    ELSE 0

\* the local state a batch check starts in
BatchCheckStart(method_name, w) ==
    CASE method_name = "ncapi" ->
            [kind |-> "ncapi", phase |-> "request", i |-> 0, nitems |-> 0,
             batch_size |-> batch_size]
      [] method_name = "gandi" ->
            [kind |-> "gandi", phase |-> "request", i |-> 0, nevents |-> 0,
             domain_availability |-> EmptyDict, domain_prices |-> EmptyDict, j |-> 0,
             batch_size |-> batch_size]
      [] method_name = "domainr" ->
            [kind |-> "domainr", phase |-> "run", progress |-> 0,
             tasks |-> [j \in 1..Len(w) |-> "queued"],
             price |-> [j \in 1..Len(w) |-> PyNone],
             failed |-> {}, errors0 |-> Len(error_messages)]

\* main: the next batch check is handed its batch_domains, or skipped when the
\* list is empty
BatchStart ==
    /\ pc = "batch" /\ bstate.kind = "idle" /\ stage <= Len(batch_methods)
    /\ LET w == batch_domains(batch_methods[stage])
       IN  /\ work' = w
           /\ IF w # <<>>
              THEN /\ bstate' = BatchCheckStart(batch_methods[stage], w)
                   /\ stage' = stage
              ELSE /\ bstate' = bstate
                   /\ stage' = stage + 1
    /\ UNCHANGED <<domains, methods_sequence, batch_methods, ds, task_pc, trace,
                   domain_statuses, pc, error_messages, barrier_avail,
                   sorted_domain_statuses, last_call>>

\* the batch check's run returns to main
BatchReturn ==
    /\ pc = "batch" /\ bstate.kind # "idle" /\ bstate.phase = "return"
    /\ bstate' = [kind |-> "idle"]
    /\ stage' = stage + 1
    /\ barrier_avail' = Availabilities
    /\ UNCHANGED <<domains, methods_sequence, batch_methods, ds, task_pc, trace,
                   domain_statuses, pc, work, error_messages, sorted_domain_statuses,
                   last_call>>

\* mutant of NextBatch: the loop over the batches ends with the batch at hand
NextBatch_stops(b) == [b EXCEPT !.phase = "return"]

\* the loop over batches of batch_size: the state after the batch starting at i
NextBatch(b) ==
    IF b.i + b.batch_size < Len(work)
    THEN [b EXCEPT !.phase = "request", !.i = b.i + b.batch_size]
    ELSE [b EXCEPT !.phase = "return"]

\* the domains of the batch starting at offset i
BatchOf(i) == {ds[work[k]].domain :
                   k \in (i + 1)..(IF i + bstate.batch_size < Len(work)
                                   THEN i + bstate.batch_size ELSE Len(work))}

\* domains a response can name that the check did not ask for: one that is not
\* in the input list, and those of the records the check was not handed
Unrequested == {"other.com"} \cup {ds[k].domain : k \in DOMAIN ds \ Range(work)}

batchFrame == <<domains, methods_sequence, batch_methods, task_pc, trace, domain_statuses,
                pc, stage, work, barrier_avail, sorted_domain_statuses, last_call>>

-----------------------------------------------------------------------------
(* NCAPICheck.run *)

\* what the request of one batch can come to
NcapiOutcomes == {"raise", "status", "format", "ok"}

NcapiError(outcome, i) ==
    CASE outcome = "raise" -> "NCAPICheck error: timed out"
      [] outcome = "status" -> "NCAPICheck API request failed with status code 500"
      [] outcome = "format" ->
            "NCAPICheck API response format unexpected for batch starting with "
            \o ds[work[i + 1]].domain

\* the items data['status'] can hold for a batch: each names a domain of the batch
\* or one that was not asked for
NcapiItems(i) ==
    LET names == BatchOf(i) \cup Unrequested
        base == [domain : names, source : {"registry"}, available : BOOLEAN,
                 premium : BOOLEAN]
    IN  [domain : names, source : {"n/a"}]
        \cup base
        \cup {[k \in DOMAIN b \cup {"average_price"} |->
                  IF k = "average_price" THEN "1200" ELSE b[k]] : b \in base}

\* mutant of NCAPI_update: source 'n/a' resets the availability
NCAPI_update_resets(r, domain_info) ==
    LET r1 == [r EXCEPT !.checked_apis = Append(@, "NCAPICheck")]
    IN  IF Get(domain_info, "source", "") = "n/a"
        THEN set_availability(r1, PyNone, PyNone, "NCAPICheck", PyNone)
        ELSE IF Get(domain_info, "available", FALSE)
        THEN set_availability(r1, IF Get(domain_info, "premium", FALSE)
                                  THEN AvailPremium ELSE AvailTrue,
                              Get(domain_info, "average_price", "Unknown"),
                              "NCAPICheck", PyNone)
        ELSE set_availability(r1, AvailFalse, PyNone, "NCAPICheck", PyNone)

\* mutant of NCAPI_update: the quoted price is stored whatever the item says
NCAPI_update_prices_all(r, domain_info) ==
    LET r1 == [r EXCEPT !.checked_apis = Append(@, "NCAPICheck")]
    IN  IF Get(domain_info, "source", "") = "n/a"
        THEN add_reason(r1, "Inconclusive", "NCAPICheck")
        ELSE set_availability(r1,
                              IF Get(domain_info, "available", FALSE)
                              THEN (IF Get(domain_info, "premium", FALSE)
                                    THEN AvailPremium ELSE AvailTrue)
                              ELSE AvailFalse,
                              Get(domain_info, "average_price", "Unknown"),
                              "NCAPICheck", PyNone)

\* NCAPICheck.run: what one item of data['status'] does to the record it names
NCAPI_update(r, domain_info) ==
    LET r1 == [r EXCEPT !.checked_apis = Append(@, "NCAPICheck")]
    IN  IF Get(domain_info, "source", "") = "n/a"
        THEN add_reason(r1, "Inconclusive", "NCAPICheck")
        ELSE IF Get(domain_info, "available", FALSE)
        THEN IF Get(domain_info, "premium", FALSE)
             THEN set_availability(r1, AvailPremium,
                                   Get(domain_info, "average_price", "Unknown"),
                                   "NCAPICheck", PyNone)
             ELSE set_availability(r1, AvailTrue,
                                   Get(domain_info, "average_price", "Unknown"),
                                   "NCAPICheck", PyNone)
        ELSE set_availability(r1, AvailFalse, PyNone, "NCAPICheck", PyNone)

\* the request of the batch at bstate.i is made
NCAPIRequest(outcome) ==
    /\ pc = "batch" /\ bstate.kind = "ncapi" /\ bstate.phase = "request"
    /\ IF outcome = "ok"
       THEN /\ bstate' = [bstate EXCEPT !.phase = "items", !.nitems = 0]
            /\ error_messages' = error_messages
       ELSE /\ bstate' = NextBatch(bstate)
            /\ error_messages' = Append(error_messages, NcapiError(outcome, bstate.i))
    /\ UNCHANGED ds
    /\ UNCHANGED batchFrame

\* the next item of data['status'] is processed
NCAPIItem ==
    /\ pc = "batch" /\ bstate.kind = "ncapi" /\ bstate.phase = "items"
    /\ bstate.nitems < MaxItems
    /\ \E domain_info \in NcapiItems(bstate.i) :
          LET k == FirstMatch(work, Get(domain_info, "domain", ""))
          IN  ds' = IF k # 0 THEN [ds EXCEPT ![k] = NCAPI_update(ds[k], domain_info)]
                    ELSE ds
    /\ bstate' = [bstate EXCEPT !.nitems = @ + 1]
    /\ UNCHANGED error_messages
    /\ UNCHANGED batchFrame

\* the next item is not an object: the exception ends the batch
NCAPIItemRaises ==
    /\ pc = "batch" /\ bstate.kind = "ncapi" /\ bstate.phase = "items"
    /\ bstate.nitems < MaxItems
    /\ bstate' = NextBatch(bstate)
    /\ error_messages' = Append(error_messages,
                                "NCAPICheck error: 'str' object has no attribute 'get'")
    /\ UNCHANGED ds
    /\ UNCHANGED batchFrame

\* data['status'] is exhausted
NCAPIItemsEnd ==
    /\ pc = "batch" /\ bstate.kind = "ncapi" /\ bstate.phase = "items"
    /\ bstate' = NextBatch(bstate)
    /\ UNCHANGED <<ds, error_messages>>
    /\ UNCHANGED batchFrame

-----------------------------------------------------------------------------
(* GandiAPICheck.run *)

GandiOutcomes == {"raise", "status", "ok"}

GandiError(outcome) ==
    CASE outcome = "raise" -> "GandiAPICheck error: timed out"
      [] outcome = "status" -> "GandiAPICheck API request failed with status code 500"

\* d[key] = value
DictSet(d, key, value) ==
    [k \in DOMAIN d \cup {key} |-> IF k = key THEN value ELSE d[k]]

\* the data of an 'event: das' line: fqdn, and availability and premium or neither
GandiDasData(i) ==
    [fqdn : BatchOf(i)]
    \cup [fqdn : BatchOf(i),
          availability : {"available", "unavailable", "invalid", "pending"},
          premium : {0, 1}]
    \cup [fqdn : Unrequested, availability : {"available"}, premium : {1}]

\* the product lists of an 'event: billing' line: the create product after
\* another one, a create product without prices, two create products
GandiProducts ==
    {<<[process |-> "renew", prices |-> <<[average_price |-> "5"]>>],
       [process |-> "create", prices |-> <<[average_price |-> "1200"]>>]>>,
     <<[process |-> "create", prices |-> <<>>],
       [process |-> "create", prices |-> <<[average_price |-> "1200"]>>]>>,
     <<[process |-> "create", prices |-> <<[average_price |-> "1200"]>>],
       [process |-> "create", prices |-> <<[average_price |-> "5"]>>]>>}

GandiBillingData(i) == [fqdn : BatchOf(i), prices : [products : GandiProducts]]

\* the value kept for a domain from a das event
Gandi_das_value(data) ==
    IF Get(data, "premium", 0) = 1 THEN "premium" ELSE Get(data, "availability", PyNone)

\* the create price of a billing event: the first product whose process is
\* 'create' decides; PyNone when nothing is stored (no such product, an empty
\* price list, whose IndexError is swallowed, or a falsy average_price)
RECURSIVE Gandi_create_price(_, _)
Gandi_create_price(products, k) ==
    IF k > Len(products) THEN PyNone
    ELSE IF Get(products[k], "process", PyNone) = "create"
    THEN LET prices == Get(products[k], "prices", <<>>)
         IN  IF Len(prices) = 0 THEN PyNone
             ELSE LET average_price == Get(prices[1], "average_price", PyNone)
                  IN  IF Truthy(average_price) THEN average_price ELSE PyNone
    ELSE Gandi_create_price(products, k + 1)

\* mutant of Gandi_update: the value 'premium' is not among those tested
Gandi_update_no_premium(r, domain_availability, domain_prices) ==
    LET r1 == [r EXCEPT !.checked_apis = Append(@, "GandiAPICheck")]
        availability == Get(domain_availability, r.domain, PyNone)
    IN  IF availability = "available"
        THEN IF r1.is_available # AvailPremium
             THEN set_availability(r1, AvailTrue, Get(domain_prices, r.domain, "Unknown"),
                                   "GandiAPICheck", PyNone)
             ELSE r1
        ELSE IF availability \in {"unavailable", "invalid"}
        THEN set_availability(r1, AvailFalse, PyNone, "GandiAPICheck", PyNone)
        ELSE add_reason(r1, "Inconclusive", "GandiAPICheck")

\* mutant of Gandi_update: 'invalid' is not among the values tested
Gandi_update_no_invalid(r, domain_availability, domain_prices) ==
    LET r1 == [r EXCEPT !.checked_apis = Append(@, "GandiAPICheck")]
        availability == Get(domain_availability, r.domain, PyNone)
    IN  IF availability = "available"
        THEN IF r1.is_available # AvailPremium
             THEN set_availability(r1, AvailTrue, Get(domain_prices, r.domain, "Unknown"),
                                   "GandiAPICheck", PyNone)
             ELSE r1
        ELSE IF availability = "unavailable"
        THEN set_availability(r1, AvailFalse, PyNone, "GandiAPICheck", PyNone)
        ELSE IF availability = "premium"
        THEN set_availability(r1, AvailPremium, Get(domain_prices, r.domain, "Unknown"),
                              "GandiAPICheck", PyNone)
        ELSE add_reason(r1, "Inconclusive", "GandiAPICheck")

\* GandiAPICheck.run: the update of one record of the batch after the stream
Gandi_update(r, domain_availability, domain_prices) ==
    LET r1 == [r EXCEPT !.checked_apis = Append(@, "GandiAPICheck")]
        availability == Get(domain_availability, r.domain, PyNone)
    IN  IF availability = "available"
        THEN IF r1.is_available # AvailPremium
             THEN set_availability(r1, AvailTrue, Get(domain_prices, r.domain, "Unknown"),
                                   "GandiAPICheck", PyNone)
             ELSE r1
        ELSE IF availability = "unavailable"
        THEN set_availability(r1, AvailFalse, PyNone, "GandiAPICheck", PyNone)
        ELSE IF availability = "invalid"
        THEN set_availability(r1, AvailFalse, PyNone, "GandiAPICheck", PyNone)
        ELSE IF availability = "premium"
        THEN set_availability(r1, AvailPremium, Get(domain_prices, r.domain, "Unknown"),
                              "GandiAPICheck", PyNone)
        ELSE add_reason(r1, "Inconclusive", "GandiAPICheck")

\* the request of the batch at bstate.i is made
GandiRequest(outcome) ==
    /\ pc = "batch" /\ bstate.kind = "gandi" /\ bstate.phase = "request"
    /\ IF outcome = "ok"
       THEN /\ bstate' = [bstate EXCEPT !.phase = "stream", !.nevents = 0,
                              !.domain_availability = EmptyDict,
                              !.domain_prices = EmptyDict]
            /\ error_messages' = error_messages
       ELSE /\ bstate' = NextBatch(bstate)
            /\ error_messages' = Append(error_messages, GandiError(outcome))
    /\ UNCHANGED ds
    /\ UNCHANGED batchFrame

\* an 'event: das' line and its data line are read
GandiDas ==
    /\ pc = "batch" /\ bstate.kind = "gandi" /\ bstate.phase = "stream"
    /\ bstate.nevents < MaxEvents
    /\ \E data \in GandiDasData(bstate.i) :
          bstate' = [bstate EXCEPT !.nevents = @ + 1,
                         !.domain_availability =
                             DictSet(@, Get(data, "fqdn", PyNone), Gandi_das_value(data))]
    /\ UNCHANGED <<ds, error_messages>>
    /\ UNCHANGED batchFrame

\* an 'event: billing' line and its data line are read
GandiBilling ==
    /\ pc = "batch" /\ bstate.kind = "gandi" /\ bstate.phase = "stream"
    /\ bstate.nevents < MaxEvents
    /\ \E data \in GandiBillingData(bstate.i) :
          LET average_price == Gandi_create_price(data.prices.products, 1)
          IN  bstate' = [bstate EXCEPT !.nevents = @ + 1,
                             !.domain_prices =
                                 IF average_price # PyNone
                                 THEN DictSet(@, Get(data, "fqdn", PyNone), average_price)
                                 ELSE @]
    /\ UNCHANGED <<ds, error_messages>>
    /\ UNCHANGED batchFrame

\* the data line after an event line is not a JSON object: json.loads (or
\* data.get) raises, the exception leaves the try block and the batch is
\* left without any update
GandiMalformedData ==
    /\ pc = "batch" /\ bstate.kind = "gandi" /\ bstate.phase = "stream"
    /\ bstate.nevents < MaxEvents
    /\ bstate' = NextBatch(bstate)
    /\ error_messages' = Append(error_messages,
                                "GandiAPICheck error: Expecting value: line 1 column 1 (char 0)")
    /\ UNCHANGED ds
    /\ UNCHANGED batchFrame

\* the stream ends, after a complete pair or right after an event line
\* (StopIteration breaks the loop); lines that start with neither event name
\* are passed over.  The update of the batch begins.
GandiStreamEnd ==
    /\ pc = "batch" /\ bstate.kind = "gandi" /\ bstate.phase = "stream"
    /\ bstate' = [bstate EXCEPT !.phase = "update", !.j = 1]
    /\ UNCHANGED <<ds, error_messages>>
    /\ UNCHANGED batchFrame

\* the next record of current_batch_statuses is updated
GandiUpdate ==
    /\ pc = "batch" /\ bstate.kind = "gandi" /\ bstate.phase = "update"
    /\ LET k == work[bstate.i + bstate.j]
           last == bstate.j = bstate.batch_size \/ bstate.i + bstate.j = Len(work)
       IN  /\ ds' = [ds EXCEPT ![k] = Gandi_update(ds[k], bstate.domain_availability,
                                                   bstate.domain_prices)]
           /\ bstate' = IF last THEN NextBatch(bstate) ELSE [bstate EXCEPT !.j = @ + 1]
    /\ UNCHANGED error_messages
    /\ UNCHANGED batchFrame

-----------------------------------------------------------------------------
(* DomainrAPICheck.run *)

max_threads == 5

\* what the request of one domain can come to: an exception, a status code other
\* than 200, a body without status entries, or a first status entry
DomainrResponses ==
    {[kind |-> "raise"], [kind |-> "status"], [kind |-> "empty"]}
    \cup [kind : {"summary"},
          summary : {"inactive", "undelegated", "active", "reserved", "parked",
                     "disallowed", "premium", "marketed"}]
    \cup {[kind |-> "summary", summary |-> "premium", average_price |-> "1200"]}

DomainrError(response, domain) ==
    CASE response.kind = "raise" ->
            "DomainrAPICheck error for " \o domain \o ": timed out"
      [] response.kind = "status" ->
            "DomainrAPICheck API request failed for " \o domain \o " with status code 500"

\* the tasks of the executor that a worker thread is running
DomainrRunning == {j \in DOMAIN bstate.tasks : bstate.tasks[j] \notin {"queued", "done"}}

\* process_single_domain: what a first status entry does to the record, apart
\* from the inactive/undelegated and premium branches, whose reads of the record
\* and whose calls on it are steps of their own
Domainr_update(r, status_info) ==
    LET summary == status_info.summary
    IN  IF summary \in {"active", "reserved", "parked"}
        THEN set_availability(r, AvailFalse, PyNone, "DomainrAPICheck", PyNone)
        ELSE IF summary = "disallowed"
        THEN set_availability(r, AvailFalse, PyNone, "DomainrAPICheck", PyNone)
        ELSE add_reason(r, summary, "DomainrAPICheck")

\* the premium branch: the price passed to set_availability, from the status
\* entry or from ds.price as it is read, outside the lock, before the call
Domainr_premium_price(r, status_info) ==
    LET average_price == Get(status_info, "average_price", r.price)
    IN  IF average_price \notin {"N/A", "Unknown"} THEN average_price ELSE r.price

\* mutant of DomainrCall: the append to the error list is a read and a write,
\* and the entry of a call that fails while another task is running is lost
DomainrCall_lost_error(j) ==
    /\ pc = "batch" /\ bstate.kind = "domainr" /\ bstate.phase = "run"
    /\ j \in DOMAIN bstate.tasks /\ bstate.tasks[j] = "queued"
    /\ Cardinality(DomainrRunning) < max_threads
    /\ \E response \in DomainrResponses :
          LET k == FirstMatch(work, ds[work[j]].domain)
              r1 == [ds[k] EXCEPT !.checked_apis = Append(@, "DomainrAPICheck")]
          IN  IF response.kind \in {"raise", "status"}
              THEN /\ error_messages' =
                          IF DomainrRunning # {} THEN error_messages
                          ELSE Append(error_messages,
                                      DomainrError(response, ds[work[j]].domain))
                   /\ ds' = ds
                   /\ bstate' = [bstate EXCEPT !.tasks[j] = "finally",
                                     !.failed = @ \cup {j}]
              ELSE IF response.kind = "empty"
              THEN /\ UNCHANGED <<ds, error_messages>>
                   /\ bstate' = [bstate EXCEPT !.tasks[j] = "finally"]
              ELSE IF response.summary \in {"inactive", "undelegated"}
              THEN /\ ds' = [ds EXCEPT ![k] = r1]
                   /\ error_messages' = error_messages
                   /\ bstate' = [bstate EXCEPT !.tasks[j] =
                                     IF r1.is_available = AvailTrue THEN "finally"
                                     ELSE IF r1.is_available = PyNone THEN "set"
                                     ELSE "finally"]
              ELSE IF response.summary = "premium"
              THEN /\ ds' = [ds EXCEPT ![k] = r1]
                   /\ error_messages' = error_messages
                   /\ bstate' = [bstate EXCEPT !.tasks[j] = "premium",
                                     !.price[j] = Domainr_premium_price(r1, response)]
              ELSE /\ ds' = [ds EXCEPT ![k] = Domainr_update(r1, response)]
                   /\ error_messages' = error_messages
                   /\ bstate' = [bstate EXCEPT !.tasks[j] = "finally"]
    /\ UNCHANGED batchFrame

\* a worker takes the task of domains[j], finds its record, gets the response
\* and runs up to the first call on the record or to the finally block
DomainrCall(j) ==
    /\ pc = "batch" /\ bstate.kind = "domainr" /\ bstate.phase = "run"
    /\ j \in DOMAIN bstate.tasks /\ bstate.tasks[j] = "queued"
    /\ Cardinality(DomainrRunning) < max_threads
    /\ \E response \in DomainrResponses :
          LET k == FirstMatch(work, ds[work[j]].domain)
              r1 == [ds[k] EXCEPT !.checked_apis = Append(@, "DomainrAPICheck")]
          IN  IF response.kind \in {"raise", "status"}
              THEN /\ error_messages' = Append(error_messages,
                                               DomainrError(response, ds[work[j]].domain))
                   /\ ds' = ds
                   /\ bstate' = [bstate EXCEPT !.tasks[j] = "finally",
                                     !.failed = @ \cup {j}]
              ELSE IF response.kind = "empty"
              THEN /\ UNCHANGED <<ds, error_messages>>
                   /\ bstate' = [bstate EXCEPT !.tasks[j] = "finally"]
              ELSE IF response.summary \in {"inactive", "undelegated"}
              THEN /\ ds' = [ds EXCEPT ![k] = r1]
                   /\ error_messages' = error_messages
                   /\ bstate' = [bstate EXCEPT !.tasks[j] =
                                     IF r1.is_available = AvailTrue THEN "finally"
                                     ELSE IF r1.is_available = PyNone THEN "set"
                                     ELSE "finally"]
              ELSE IF response.summary = "premium"
              THEN /\ ds' = [ds EXCEPT ![k] = r1]
                   /\ error_messages' = error_messages
                   /\ bstate' = [bstate EXCEPT !.tasks[j] = "premium",
                                     !.price[j] = Domainr_premium_price(r1, response)]
              ELSE /\ ds' = [ds EXCEPT ![k] = Domainr_update(r1, response)]
                   /\ error_messages' = error_messages
                   /\ bstate' = [bstate EXCEPT !.tasks[j] = "finally"]
    /\ UNCHANGED batchFrame

\* the call that follows the test 'ds.is_available is None'
Domainr_confirm(r) == set_availability(r, AvailTrue, PyNone, "DomainrAPICheck", PyNone)

\* the task that found the record Unknown calls set_availability(True)
DomainrSet(j) ==
    /\ pc = "batch" /\ bstate.kind = "domainr" /\ bstate.phase = "run"
    /\ j \in DOMAIN bstate.tasks /\ bstate.tasks[j] = "set"
    /\ LET k == FirstMatch(work, ds[work[j]].domain)
           r1 == Domainr_confirm(ds[k])
       IN  /\ ds' = [ds EXCEPT ![k] = r1]
           /\ bstate' = [bstate EXCEPT !.tasks[j] =
                             IF r1.restriction_flag
                                /\ Truthy(Get(r1.tld_info, "restrictions", ""))
                             THEN "add" ELSE "finally"]
    /\ UNCHANGED error_messages
    /\ UNCHANGED batchFrame

\* the task of a premium entry calls set_availability('Premium') with the price
\* it has read
DomainrSetPremium(j) ==
    /\ pc = "batch" /\ bstate.kind = "domainr" /\ bstate.phase = "run"
    /\ j \in DOMAIN bstate.tasks /\ bstate.tasks[j] = "premium"
    /\ LET k == FirstMatch(work, ds[work[j]].domain)
       IN  ds' = [ds EXCEPT ![k] = set_availability(ds[k], AvailPremium, bstate.price[j],
                                                   "DomainrAPICheck", PyNone)]
    /\ bstate' = [bstate EXCEPT !.tasks[j] = "finally"]
    /\ UNCHANGED error_messages
    /\ UNCHANGED batchFrame

\* ... and then add_reason with the restriction of the TLD
DomainrAddReason(j) ==
    /\ pc = "batch" /\ bstate.kind = "domainr" /\ bstate.phase = "run"
    /\ j \in DOMAIN bstate.tasks /\ bstate.tasks[j] = "add"
    /\ LET k == FirstMatch(work, ds[work[j]].domain)
       IN  ds' = [ds EXCEPT ![k] = add_reason(ds[k], Get(ds[k].tld_info, "restrictions", ""),
                                              "DomainrAPICheck")]
    /\ bstate' = [bstate EXCEPT !.tasks[j] = "finally"]
    /\ UNCHANGED error_messages
    /\ UNCHANGED batchFrame

\* mutant of DomainrFinally: without progress_lock, the increment of a task that
\* is in the finally block together with another task is lost
DomainrFinally_unlocked(j) ==
    /\ pc = "batch" /\ bstate.kind = "domainr" /\ bstate.phase = "run"
    /\ j \in DOMAIN bstate.tasks /\ bstate.tasks[j] = "finally"
    /\ bstate' = [bstate EXCEPT !.tasks[j] = "done",
                       !.progress = IF \E j2 \in DOMAIN bstate.tasks \ {j} :
                                         bstate.tasks[j2] = "finally"
                                    THEN @ ELSE @ + 1]
    /\ UNCHANGED <<ds, error_messages>>
    /\ UNCHANGED batchFrame

\* the finally block: the progress counter, under progress_lock
DomainrFinally(j) ==
    /\ pc = "batch" /\ bstate.kind = "domainr" /\ bstate.phase = "run"
    /\ j \in DOMAIN bstate.tasks /\ bstate.tasks[j] = "finally"
    /\ bstate' = [bstate EXCEPT !.tasks[j] = "done", !.progress = @ + 1]
    /\ UNCHANGED <<ds, error_messages>>
    /\ UNCHANGED batchFrame

\* mutant of DomainrAllDone: run returns at the first completed future
DomainrAnyDone == \E j \in DOMAIN bstate.tasks : bstate.tasks[j] = "done"

\* the with block of the executor waits for every submitted task
DomainrAllDone == \A j \in DOMAIN bstate.tasks : bstate.tasks[j] = "done"

\* the executor is left once every future has completed
DomainrJoin ==
    /\ pc = "batch" /\ bstate.kind = "domainr" /\ bstate.phase = "run"
    /\ DomainrAllDone
    /\ bstate' = [bstate EXCEPT !.phase = "return"]
    /\ UNCHANGED <<ds, error_messages>>
    /\ UNCHANGED batchFrame

-----------------------------------------------------------------------------
(* The sort of the results *)

\* a float as a fraction; float('inf') has denominator 0
PriceInf == [num |-> 1, den |-> 0]

RECURSIVE Pow10(_)
Pow10(n) == IF n = 0 THEN 1 ELSE 10 * Pow10(n - 1)

\* mutant of PriceFloat: int(ds.price) instead of float(ds.price)
PriceFloat_int(price) ==
    IF IsDigits(price) THEN [num |-> DigitsValue(price), den |-> 1] ELSE PriceInf

\* float(ds.price), float('inf') when it raises.  Parsed here: decimal digits
\* with at most one '.', which is the form of every numeric price a record of
\* this model holds; any other string is taken to make float raise.
PriceFloat(price) ==
    LET dot == LastDot(price)
        whole == SubSeq(price, 1, dot - 1)
        frac == SubSeq(price, dot + 1, Len(price))
    IN  IF dot = 0
        THEN IF IsDigits(price) THEN [num |-> DigitsValue(price), den |-> 1] ELSE PriceInf
        ELSE IF /\ whole = "" \/ IsDigits(whole)
                /\ frac = "" \/ IsDigits(frac)
                /\ whole # "" \/ frac # ""
        THEN [num |-> DigitsValue(whole) * Pow10(Len(frac)) + DigitsValue(frac),
              den |-> Pow10(Len(frac))]
        ELSE PriceInf

\* a < b for two such floats
FloatLess(a, b) == a.num * b.den < b.num * a.den

get_sort_key(r) ==
    LET availability_priority ==
            IF r.is_available = AvailTrue
            THEN IF r.restriction_flag THEN 2 ELSE 1
            ELSE IF r.is_available = AvailPremium THEN 3
            ELSE IF r.is_available = AvailFalse THEN 4
            ELSE 5
    IN  <<availability_priority, PriceFloat(r.price)>>

\* tuple comparison of two sort keys
KeyLess(a, b) == a[1] < b[1] \/ (a[1] = b[1] /\ FloatLess(a[2], b[2]))

\* sorted(domain_statuses, key=get_sort_key): stable, so each element goes after
\* the elements already placed whose key is not greater
RECURSIVE InsertSorted(_, _)
InsertSorted(sorted, k) ==
    IF sorted = <<>> THEN <<k>>
    ELSE IF KeyLess(get_sort_key(ds[k]), get_sort_key(ds[Head(sorted)]))
    THEN <<k>> \o sorted
    ELSE <<Head(sorted)>> \o InsertSorted(Tail(sorted), k)

RECURSIVE Sorted(_)
Sorted(list) ==
    IF list = <<>> THEN <<>>
    ELSE InsertSorted(Sorted(SubSeq(list, 1, Len(list) - 1)), list[Len(list)])

\* main: every batch check has run; the list is sorted for the table
MainSort ==
    /\ pc = "batch" /\ bstate.kind = "idle" /\ stage > Len(batch_methods)
    /\ sorted_domain_statuses' = Sorted(domain_statuses)
    /\ pc' = "done"
    /\ UNCHANGED <<domains, methods_sequence, batch_methods, ds, task_pc, trace,
                   domain_statuses, stage, work, bstate, error_messages, barrier_avail,
                   last_call>>

-----------------------------------------------------------------------------
(* The call harness: the four mutation methods of one DomainStatus, called  *)
(* in any order with arguments drawn from small sets.                       *)

LongText == Repeat("0123456789", 15)

HarnessReasons == {"WHOIS data inconclusive", "#", LongText}
HarnessMethods == {"", "WHOISCheck"}
HarnessPrices == {PyNone, "", "N/A", "Unknown", "12.5", "1200"}
HarnessCustom == {PyNone, "TLD not recognized", LongText}
HarnessTldInfos == {EmptyDict} \cup {tlds_dict[k] : k \in DOMAIN tlds_dict}

NoCall == [op |-> "none", n |-> 0, before |-> DomainStatus(""), reason |-> PyNone,
           method_name |-> "", is_available |-> PyNone, price |-> PyNone,
           custom_reason |-> PyNone, tld_info |-> EmptyDict, computed |-> PyNone]

InitStatus ==
    /\ domains = <<"ab.nl">>
    /\ methods_sequence = <<>>
    /\ batch_methods = <<>>
    /\ ds = <<DomainStatus("ab.nl")>>
    /\ task_pc = <<0>>
    /\ trace = <<<<>>>>
    /\ domain_statuses = <<1>>
    /\ pc = "direct"
    /\ stage = 0
    /\ work = <<>>
    /\ bstate = [kind |-> "idle"]
    /\ error_messages = <<>>
    /\ barrier_avail = <<PyNone>>
    /\ sorted_domain_statuses = <<>>
    /\ last_call = NoCall

pipelineVars == <<domains, methods_sequence, batch_methods, task_pc, trace, domain_statuses,
                  pc, stage, work, bstate, error_messages, barrier_avail,
                  sorted_domain_statuses>>

CallAddReason(reason, method_name) ==
    /\ pc = "direct" /\ last_call.n < MaxCalls
    /\ ds' = [ds EXCEPT ![1] = add_reason(ds[1], reason, method_name)]
    /\ last_call' = [NoCall EXCEPT !.op = "add_reason", !.n = last_call.n + 1,
                        !.before = ds[1], !.reason = reason, !.method_name = method_name,
                        !.computed = IF ds[1].is_available = PyNone
                                     THEN add_reason_combined(ds[1], reason, method_name)
                                     ELSE PyNone]
    /\ UNCHANGED pipelineVars

CallSetAvailability(is_available, price, method_name, custom_reason) ==
    /\ pc = "direct" /\ last_call.n < MaxCalls
    /\ ds' = [ds EXCEPT ![1] = set_availability(ds[1], is_available, price, method_name,
                                                custom_reason)]
    /\ last_call' = [NoCall EXCEPT !.op = "set_availability", !.n = last_call.n + 1,
                        !.before = ds[1], !.is_available = is_available, !.price = price,
                        !.method_name = method_name, !.custom_reason = custom_reason,
                        !.computed = set_availability_combined(ds[1], is_available,
                                                               method_name, custom_reason)]
    /\ UNCHANGED pipelineVars

CallSetReason(reason) ==
    /\ pc = "direct" /\ last_call.n < MaxCalls
    /\ ds' = [ds EXCEPT ![1] = set_reason(ds[1], reason)]
    /\ last_call' = [NoCall EXCEPT !.op = "set_reason", !.n = last_call.n + 1,
                        !.before = ds[1], !.reason = reason, !.computed = reason]
    /\ UNCHANGED pipelineVars

CallSetTldInfo(tld_info) ==
    /\ pc = "direct" /\ last_call.n < MaxCalls
    /\ ds' = [ds EXCEPT ![1] = set_tld_info(ds[1], tld_info)]
    /\ last_call' = [NoCall EXCEPT !.op = "set_tld_info", !.n = last_call.n + 1,
                        !.before = ds[1], !.tld_info = tld_info]
    /\ UNCHANGED pipelineVars

NextStatus ==
    \/ \E reason \in HarnessReasons, m \in HarnessMethods : CallAddReason(reason, m)
    \/ \E a \in Conclusive \cup {PyNone}, p \in HarnessPrices, m \in HarnessMethods,
          c \in HarnessCustom : CallSetAvailability(a, p, m, c)
    \/ \E reason \in HarnessReasons : CallSetReason(reason)
    \/ \E t \in HarnessTldInfos : CallSetTldInfo(t)

SpecStatus == InitStatus /\ [][NextStatus]_vars

-----------------------------------------------------------------------------
(* The check harness: the run methods of the three per-domain checks,       *)
(* called on one record in any order, with everything the resolver and the  *)
(* WHOIS lookup can answer.                                                 *)

CheckDomains ==
    {"ab.nl", "a.nl", "abcd.nl", ".nl", "AB.COM", "ab.dev", "ab.ws", "ab.gov", "ab.xx", "ab"}

WhoisCheckTexts ==
    {"", "Domain Status: Available", "Prohibited string", "No match for domain",
     "Connection reset by peer"}

WhoisCheckResponses == [kind : {"text", "raise"}, text : WhoisCheckTexts, registered : BOOLEAN]

\* what the resolver gives for A, MX and NS: records, no answer or an error
\* (resolve raises NoAnswer rather than return an answer without records)
CheckDnsAnswers == [1..Len(record_types) -> DnsOutcomes \ {"empty"}]

NoCheck == [op |-> "none", n |-> 0, before |-> DomainStatus(""), ret |-> FALSE,
            raised |-> FALSE, answers |-> <<>>, response |-> [kind |-> "none"]]

InitChecks ==
    /\ domains \in [1..1 -> CheckDomains]
    /\ methods_sequence = <<>>
    /\ batch_methods = <<>>
    /\ ds = <<DomainStatus(domains[1])>>
    /\ task_pc = <<0>>
    /\ trace = <<<<>>>>
    /\ domain_statuses = <<1>>
    /\ pc = "checks"
    /\ stage = 0
    /\ work = <<>>
    /\ bstate = [kind |-> "idle"]
    /\ error_messages = <<>>
    /\ barrier_avail = <<PyNone>>
    /\ sorted_domain_statuses = <<>>
    /\ last_call = NoCheck

CallTLDCheck ==
    /\ pc = "checks" /\ last_call.n < MaxChecks
    /\ LET result == TLDCheck_run(ds[1])
       IN  /\ ds' = [ds EXCEPT ![1] = result.ds]
           /\ last_call' = [NoCheck EXCEPT !.op = "TLDCheck", !.n = last_call.n + 1,
                               !.before = ds[1], !.ret = result.ret]
    /\ UNCHANGED pipelineVars

CallDNSCheck(answers) ==
    /\ pc = "checks" /\ last_call.n < MaxChecks
    /\ LET result == DNSCheck_run(ds[1], answers)
       IN  /\ ds' = [ds EXCEPT ![1] = result.ds]
           /\ last_call' = [NoCheck EXCEPT !.op = "DNSCheck", !.n = last_call.n + 1,
                               !.before = ds[1], !.ret = result.ret, !.answers = answers]
    /\ UNCHANGED pipelineVars

CallWHOISCheck(response) ==
    /\ pc = "checks" /\ last_call.n < MaxChecks
    /\ LET result == WHOISCheck_run(ds[1], response)
       IN  /\ ds' = [ds EXCEPT ![1] = result.ds]
           /\ last_call' = [NoCheck EXCEPT !.op = "WHOISCheck", !.n = last_call.n + 1,
                               !.before = ds[1], !.ret = result.ret,
                               !.raised = result.raised, !.response = response]
    /\ UNCHANGED pipelineVars

NextChecks ==
    \/ CallTLDCheck
    \/ \E answers \in CheckDnsAnswers : CallDNSCheck(answers)
    \/ \E response \in WhoisCheckResponses : CallWHOISCheck(response)

SpecChecks == InitChecks /\ [][NextChecks]_vars

-----------------------------------------------------------------------------
(* The sort harness: main's sort applied to every list of up to MaxSorted   *)
(* records, whatever the checks have left in them.                          *)

SortPrices == {"N/A", "Unknown", "5", "9.99", "12.5"}

SortRecords ==
    {[DomainStatus("ab.nl") EXCEPT !.is_available = a, !.restriction_flag = f, !.price = p] :
        a \in Conclusive \cup {PyNone}, f \in BOOLEAN, p \in SortPrices}

InitSort ==
    /\ \E n \in 1..MaxSorted :
          /\ ds \in [1..n -> SortRecords]
          /\ domains = [i \in 1..n |-> "ab.nl"]
          /\ domain_statuses = [i \in 1..n |-> i]
          /\ task_pc = [i \in 1..n |-> 0]
          /\ trace = [i \in 1..n |-> <<>>]
          /\ barrier_avail = [i \in 1..n |-> ds[i].is_available]
    /\ methods_sequence = <<>>
    /\ batch_methods = <<>>
    /\ pc = "batch"
    /\ stage = 1
    /\ work = <<>>
    /\ bstate = [kind |-> "idle"]
    /\ error_messages = <<>>
    /\ sorted_domain_statuses = <<>>
    /\ last_call = NoCall

SpecSort == InitSort /\ [][MainSort]_vars

-----------------------------------------------------------------------------
(* The run of main *)

InputDomains == {"ab.nl", "ab.xx"}

InputLists == UNION {[1..n -> InputDomains] : n \in 1..MaxDomains}

MethodArgs ==
    {<<>>} \cup UNION {[1..n -> Range(available_methods)] : n \in 1..MaxMethods}

ExcludeArgs == {<<>>, <<"whois">>}

\* main up to the start of the first stage, for the domain lists of `lists`
InitRun(lists) ==
    /\ domains \in lists
    /\ \E methods_arg \in MethodArgs, exclude_methods_arg \in ExcludeArgs :
          LET c == create_methods_sequence(methods_arg, exclude_methods_arg)
          IN  /\ methods_sequence = c.methods_sequence
              /\ batch_methods = c.batch_methods
    /\ ds = [i \in 1..Len(domains) |-> DomainStatus(domains[i])]
    /\ task_pc = [i \in 1..Len(domains) |-> 1]
    /\ trace = [i \in 1..Len(domains) |-> <<>>]
    /\ IF methods_sequence # <<>>
       THEN /\ pc = "single"
            /\ domain_statuses = <<>>
            /\ stage = 0
       ELSE /\ pc = "batch"
            /\ domain_statuses = [i \in 1..Len(domains) |-> i]
            /\ stage = 1
    /\ work = <<>>
    /\ bstate = [kind |-> "idle"]
    /\ error_messages = <<>>
    /\ barrier_avail = [i \in 1..Len(domains) |-> PyNone]
    /\ sorted_domain_statuses = <<>>
    /\ last_call = NoCall

Init == InitRun(InputLists)

Next ==
    \/ \E i \in 1..N : RunTLD(i)
    \/ \E i \in 1..N, answers \in QueriedDnsAnswers : RunDNS(i, answers)
    \/ \E i \in 1..N, response \in WhoisResponses : RunWHOIS(i, response)
    \/ \E i \in 1..N : Collect(i)
    \/ SingleStageDone
    \/ BatchStart
    \/ BatchReturn
    \/ \E outcome \in NcapiOutcomes : NCAPIRequest(outcome)
    \/ NCAPIItem
    \/ NCAPIItemRaises
    \/ NCAPIItemsEnd
    \/ \E outcome \in GandiOutcomes : GandiRequest(outcome)
    \/ GandiDas
    \/ GandiBilling
    \/ GandiMalformedData
    \/ GandiStreamEnd
    \/ GandiUpdate
    \/ \E j \in 1..N : DomainrCall(j)
    \/ \E j \in 1..N : DomainrSet(j)
    \/ \E j \in 1..N : DomainrSetPremium(j)
    \/ \E j \in 1..N : DomainrAddReason(j)
    \/ \E j \in 1..N : DomainrFinally(j)
    \/ DomainrJoin
    \/ MainSort

Spec == Init /\ [][Next]_vars

\* The run under its scheduling: the pools run every submitted task and main
\* goes on whenever it can, so a step that stays possible is taken.
\* Taken for the lists of two domains checked with all six methods (no
\* --methods option), where every check and every failure of one can occur.
InitFair ==
    /\ InitRun([1..MaxDomains -> InputDomains])
    /\ methods_sequence = SelectSeq(available_methods, LAMBDA m : m \in SingleMethods)
    /\ batch_methods = SelectSeq(available_methods, LAMBDA m : m \in BatchMethods)

FairSpec == InitFair /\ [][Next]_vars /\ WF_vars(Next)

-----------------------------------------------------------------------------
(* The run of main on one domain, for each kind of domain the TLD check     *)
(* tells apart: no dot, a suffix that is not in the table, a suffix that    *)
(* cannot be registered, and a suffix that can.                             *)

TldInputDomains == {"ab", "ab.xx", "ab.gov", "ab.nl"}

InitTld == InitRun([1..1 -> TldInputDomains])

SpecTld == InitTld /\ [][Next]_vars

-----------------------------------------------------------------------------
(* The item harness: the processing of one item of an NCAPI response, on a  *)
(* working set of one record in any state the earlier stages and earlier    *)
(* items of the response can have left it in.                               *)

ItemRecords ==
    {[set_tld_info(DomainStatus("ab.nl"), t) EXCEPT !.is_available = a, !.reason = rs] :
        t \in {EmptyDict, tlds_dict.nl, tlds_dict.com},
        a \in Conclusive \cup {PyNone},
        rs \in {"", "WHOIS data inconclusive (WHOISCheck)"}}

NoItem == [op |-> "none", n |-> 0, before |-> DomainStatus(""), domain_info |-> EmptyDict]

InitItem ==
    /\ domains = <<"ab.nl">>
    /\ methods_sequence = <<>>
    /\ batch_methods = <<"ncapi">>
    /\ ds \in [1..1 -> ItemRecords]
    /\ task_pc = <<0>>
    /\ trace = <<<<>>>>
    /\ domain_statuses = <<1>>
    /\ pc = "item"
    /\ stage = 1
    /\ work = <<1>>
    /\ bstate = [kind |-> "ncapi", phase |-> "items", i |-> 0, nitems |-> 0,
                 batch_size |-> batch_size]
    /\ error_messages = <<>>
    /\ barrier_avail = <<ds[1].is_available>>
    /\ sorted_domain_statuses = <<>>
    /\ last_call = NoItem

\* the body of the loop over data['status'], for one item
CallNcapiItem(domain_info) ==
    /\ pc = "item" /\ bstate.nitems < MaxItems
    /\ LET k == FirstMatch(work, Get(domain_info, "domain", ""))
       IN  ds' = IF k # 0 THEN [ds EXCEPT ![k] = NCAPI_update(ds[k], domain_info)]
                 ELSE ds
    /\ bstate' = [bstate EXCEPT !.nitems = @ + 1]
    /\ last_call' = [NoItem EXCEPT !.op = "ncapi_item", !.n = last_call.n + 1,
                        !.before = ds[1], !.domain_info = domain_info]
    /\ UNCHANGED <<domains, methods_sequence, batch_methods, task_pc, trace,
                   domain_statuses, pc, stage, work, error_messages, barrier_avail,
                   sorted_domain_statuses>>

NextItem == \E domain_info \in NcapiItems(0) : CallNcapiItem(domain_info)

SpecItem == InitItem /\ [][NextItem]_vars

-----------------------------------------------------------------------------
(* The batch harness: NCAPICheck.run on a working set of MaxDomains records *)
(* that takes more than one batch, every request failing or succeeding.     *)

BatchRecords(domain) ==
    {[set_tld_info(DomainStatus(domain), tlds_dict.nl) EXCEPT !.is_available = a] :
        a \in {PyNone, AvailTrue}}

InitBatches ==
    /\ domains \in [1..MaxDomains -> InputDomains]
    /\ methods_sequence = <<>>
    /\ batch_methods = <<"ncapi">>
    /\ ds \in [1..MaxDomains -> UNION {BatchRecords(d) : d \in InputDomains}]
    /\ \A i \in 1..MaxDomains : ds[i].domain = domains[i]
    /\ task_pc = [i \in 1..MaxDomains |-> 1]
    /\ trace = [i \in 1..MaxDomains |-> <<>>]
    /\ domain_statuses = [i \in 1..MaxDomains |-> i]
    /\ pc = "batch"
    /\ stage = 1
    /\ work = [i \in 1..MaxDomains |-> i]
    /\ bstate = [BatchCheckStart("ncapi", work) EXCEPT !.batch_size = MaxBatch]
    /\ error_messages = <<>>
    /\ barrier_avail = [i \in 1..MaxDomains |-> ds[i].is_available]
    /\ sorted_domain_statuses = <<>>
    /\ last_call = NoCall

NextBatches ==
    \/ \E outcome \in NcapiOutcomes : NCAPIRequest(outcome)
    \/ NCAPIItem
    \/ NCAPIItemRaises
    \/ NCAPIItemsEnd
    \/ BatchReturn

SpecBatches == InitBatches /\ [][NextBatches]_vars

-----------------------------------------------------------------------------
(* The presentation harness: main from the sort on, over lists of records   *)
(* of every availability, with and without the premium flag of the TLD.     *)

\* DomainStatus.get_plain_availability
get_plain_availability(r) ==
    IF r.is_available = AvailTrue
    THEN IF Get(r.tld_info, "premium", FALSE) THEN "Premium"
         ELSE IF r.restriction_flag THEN "Available"
         ELSE "Available"
    ELSE IF r.is_available = AvailPremium THEN "Premium"
    ELSE IF r.is_available = AvailFalse THEN "Not available"
    ELSE "Unknown"

\* should_show_domain: status_map
status_map ==
    [s \in {"available", "not available", "premium", "unknown"} |->
        IF s = "not available" THEN "unavailable" ELSE s]

\* should_show_domain.  An argument is given as the list of its comma-separated
\* parts, the empty list standing for an option that was not given.
should_show_domain(domain_status, show_status_arg, hide_status_arg) ==
    LET status == Lower(get_plain_availability(domain_status))
        normalized_status == Get(status_map, status, status)
        show_statuses == {Lower(show_status_arg[k]) : k \in 1..Len(show_status_arg)}
        hide_statuses == {Lower(hide_status_arg[k]) : k \in 1..Len(hide_status_arg)}
    IN  IF show_status_arg # <<>> /\ normalized_status \notin show_statuses THEN FALSE
        ELSE IF hide_status_arg # <<>> /\ normalized_status \in hide_statuses THEN FALSE
        ELSE TRUE

\* main: the sorted list is filtered by --show-status and --hide-status
MainFilter(show_status_arg, hide_status_arg) ==
    /\ pc = "done"
    /\ pc' = "shown"
    /\ last_call' =
           [op |-> "filter", show_status |-> show_status_arg,
            hide_status |-> hide_status_arg,
            filtered_statuses |->
                LET Show(k) == should_show_domain(ds[k], show_status_arg, hide_status_arg)
                IN  SelectSeq(sorted_domain_statuses, Show)]
    /\ UNCHANGED <<domains, methods_sequence, batch_methods, ds, task_pc, trace,
                   domain_statuses, stage, work, bstate, error_messages, barrier_avail,
                   sorted_domain_statuses>>

ShowPrices == {"N/A", "5"}

ShowRecords ==
    {[DomainStatus("ab.nl") EXCEPT !.is_available = a, !.restriction_flag = f,
                                   !.price = p, !.tld_info = t] :
        a \in Conclusive \cup {PyNone}, f \in BOOLEAN, p \in ShowPrices,
        t \in {EmptyDict, [premium |-> TRUE]}}

StatusArgs == {<<>>, <<"available">>, <<"Premium">>, <<"unavailable", "unknown">>}

InitShow ==
    /\ \E n \in 1..MaxShown :
          /\ ds \in [1..n -> ShowRecords]
          /\ domains = [i \in 1..n |-> "ab.nl"]
          /\ domain_statuses = [i \in 1..n |-> i]
          /\ task_pc = [i \in 1..n |-> 0]
          /\ trace = [i \in 1..n |-> <<>>]
          /\ barrier_avail = [i \in 1..n |-> ds[i].is_available]
    /\ methods_sequence = <<>>
    /\ batch_methods = <<>>
    /\ pc = "batch"
    /\ stage = 1
    /\ work = <<>>
    /\ bstate = [kind |-> "idle"]
    /\ error_messages = <<>>
    /\ sorted_domain_statuses = <<>>
    /\ last_call = NoCall

NextShow ==
    \/ MainSort
    \/ \E show_status_arg \in StatusArgs, hide_status_arg \in StatusArgs :
          MainFilter(show_status_arg, hide_status_arg)

SpecShow == InitShow /\ [][NextShow]_vars

-----------------------------------------------------------------------------
(* Claims about the DomainStatus mutation contract, checked under SpecStatus *)

\* C4: the reason never exceeds 140 characters, and whenever add_reason,
\* set_availability or set_reason computed a string longer than 140, the stored
\* reason is exactly its first 137 characters followed by '...' (and the computed
\* string itself otherwise).
C4_ReasonCap ==
    /\ \A i \in DOMAIN ds : Len(ds[i].reason) <= 140
    /\ last_call.computed # PyNone =>
          ds[1].reason = IF Len(last_call.computed) > 140
                         THEN SubSeq(last_call.computed, 1, 137) \o "..."
                         ELSE last_call.computed

\* C4 witness: add_reason built a trail longer than 140 and it was stored cut
C4_Witness ==
    /\ last_call.op = "add_reason"
    /\ Len(last_call.computed) > 140
    /\ last_call.before.reason # ""
    /\ Len(ds[1].reason) = 140
    /\ EndsWith(ds[1].reason, "...")

\* C5: add_reason on a record whose availability is Available, Premium or
\* Unavailable changes nothing of the record (reason, availability, price and
\* every other field), whatever the text and the source name, call after call.
C5_AppendOnlyWhileUnknown ==
    (last_call.op = "add_reason" /\ last_call.before.is_available \in Conclusive)
        => ds[1] = last_call.before

\* C5 witness: add_reason was called on a conclusive record that holds a reason
C5_Witness ==
    /\ last_call.op = "add_reason"
    /\ last_call.n = 3
    /\ last_call.before.is_available = AvailPremium
    /\ last_call.before.reason # ""
    /\ last_call.method_name # ""

\* C6: after set_availability with a conclusive value the reason is the one the
\* same call gives on a record whose reason was empty, and none of the trail the
\* record held before (marked '#') is left in it.
C6_OverwriteNotAppend ==
    (last_call.op = "set_availability" /\ last_call.is_available \in Conclusive)
        => /\ ds[1].reason =
                  set_availability([last_call.before EXCEPT !.reason = ""],
                                   last_call.is_available, last_call.price,
                                   last_call.method_name, last_call.custom_reason).reason
           /\ ~Contains(ds[1].reason, "#")

\* C6 witness: set_availability was called on a record holding an add_reason trail
C6_Witness ==
    /\ last_call.op = "set_availability"
    /\ last_call.is_available = AvailTrue
    /\ last_call.before.is_available = PyNone
    /\ last_call.before.reason = "# (WHOISCheck)"
    /\ last_call.before.restriction_flag
    /\ ds[1].reason = "Domain is available (WHOISCheck); Local presence required"

\* C7: the price is never 'Unknown'; once it is not 'N/A' it never becomes 'N/A'
\* again; set_availability with no price, 'N/A' or 'Unknown' leaves it unchanged;
\* and it changes only to a real value supplied by set_availability or by the
\* TLD table's average price.
C7_PriceRetained ==
    LET b == last_call.before
        a == ds[1]
    IN  /\ a.price # "Unknown"
        /\ b.price # "N/A" => a.price # "N/A"
        /\ (last_call.op = "set_availability"
              /\ last_call.price \in {PyNone, "N/A", "Unknown"}) => a.price = b.price
        /\ (last_call.op # "none" /\ a.price # b.price) =>
              \/ /\ last_call.op = "set_availability"
                 /\ last_call.price \notin {PyNone, "", "N/A", "Unknown"}
                 /\ a.price = last_call.price
              \/ /\ last_call.op = "set_tld_info"
                 /\ Get(last_call.tld_info, "average_price", "N/A") \notin {"N/A", "Unknown"}

\* C7 witness: set_availability without a real price on a record holding one
C7_Witness ==
    /\ last_call.op = "set_availability"
    /\ last_call.price \in {"N/A", "Unknown"}
    /\ last_call.before.price = "1200"
    /\ ds[1].price = "1200"


-----------------------------------------------------------------------------
(* Claims about a run of main, checked under Spec *)

\* the availability of record i was changed by the step
AvailabilityChanged(i) == ds'[i].is_available # ds[i].is_available

\* C1: once a record's availability is Available, Premium or Unavailable, no
\* later step of the run (single-domain check, batch stage, worker step) sets it
\* back to Unknown.
C1_NeverBackToUnknown ==
    [][\A i \in DOMAIN ds :
          ds[i].is_available # PyNone => ds'[i].is_available # PyNone]_vars

\* C1 witness: a record that left the single-domain stage Available was named
\* by an item of the NCAPI response and is still conclusive.
C1_Witness ==
    /\ pc = "batch" /\ bstate.kind = "ncapi"
    /\ \E i \in DOMAIN ds :
          /\ barrier_avail[i] = AvailTrue
          /\ "NCAPICheck" \in Range(ds[i].checked_apis)
          /\ ds[i].is_available # PyNone

\* C2 (as stated): once a record's availability is conclusive, the only change
\* a later check makes to it is Available to Premium; an Available record is
\* never changed to Unavailable.
C2_OnlyAvailableToPremium ==
    [][\A i \in DOMAIN ds :
          (ds[i].is_available \in Conclusive /\ AvailabilityChanged(i))
              => (ds[i].is_available = AvailTrue
                  /\ ds'[i].is_available = AvailPremium)]_vars

\* C3 (as stated): a record whose availability is Premium never becomes
\* Available.
C3_PremiumNeverAvailable ==
    [][\A i \in DOMAIN ds :
          ~(ds[i].is_available = AvailPremium
            /\ ds'[i].is_available = AvailTrue)]_vars

\* C3, the same through the Domainr workers: two tasks of a domain listed twice
\* act on the same record; one found it Unknown and calls set_availability(True)
\* after the other has made it Premium with a price.
C3_DomainrRace ==
    /\ pc = "batch" /\ bstate.kind = "domainr"
    /\ \E i \in DOMAIN ds :
          /\ ds[i].is_available = AvailTrue
          /\ ds[i].price = "1200"
          /\ ds[i].reason = "Domain is available (DomainrAPICheck)"

\* the entry of trace[i] after which process_domain is to break
BreakEntry(e) == e.ret /\ e.is_available = AvailFalse

\* C8: in the single-domain stage, once a check has returned 'verdict reached'
\* with the record Unavailable, no further single-domain check runs on that
\* record: such a check is the last one of the record's trace.
C8_StopsOnUnavailable ==
    \A i \in DOMAIN trace :
       \A k \in 1..Len(trace[i]) :
          BreakEntry(trace[i][k]) => k = Len(trace[i])

\* C8 witness: a task ended by such a check before the end of the configured
\* sequence, and the stage is over.
C8_Witness ==
    /\ pc = "batch"
    /\ \E i \in DOMAIN trace :
          /\ trace[i] # <<>>
          /\ BreakEntry(trace[i][Len(trace[i])])
          /\ Len(trace[i]) < Len(methods_sequence)

StageInput(wanted) ==
    LET Keep(i) == barrier_avail[i] \in wanted
    IN  SelectSeq(domain_statuses, Keep)

\* C10: the working set of a batch stage is computed from the availability the
\* records had when the stage started: NCAPI is handed exactly the Available
\* and Unknown records, Gandi and Domainr exactly the Unknown ones.
C10_StageFilters ==
    (pc = "batch" /\ bstate.kind # "idle") =>
        /\ bstate.kind = "ncapi" => work = StageInput({AvailTrue, PyNone})
        /\ bstate.kind = "gandi" => work = StageInput({PyNone})
        /\ bstate.kind = "domainr" => work = StageInput({PyNone})

\* C10 witness: Gandi runs after a stage that changed a record, on a working set
\* that leaves out a record that is Available and one that the earlier stage
\* made conclusive.
C10_Witness ==
    /\ pc = "batch" /\ bstate.kind = "gandi" /\ stage > 1
    /\ Len(work) < Len(domain_statuses)
    /\ \E i \in DOMAIN ds : barrier_avail[i] = AvailTrue
    /\ \E i \in DOMAIN ds : "NCAPICheck" \in Range(ds[i].checked_apis)


\* C11 (as stated): a record whose availability was conclusive (Available,
\* Premium or Unavailable) before a batch stage started is not in that stage's
\* working set.
C11_NoConclusiveInWork ==
    (pc = "batch" /\ bstate.kind # "idle") =>
        \A k \in 1..Len(work) : barrier_avail[work[k]] = PyNone

\* C11 (amended): a record that was Premium or Unavailable before a batch stage
\* started is not in that stage's working set, and a record that was Available
\* is in the working set of no stage but NCAPI's.
C11_PremiumUnavailableFiltered ==
    (pc = "batch" /\ bstate.kind # "idle") =>
        \A k \in 1..Len(work) :
           /\ barrier_avail[work[k]] \notin {AvailPremium, AvailFalse}
           /\ barrier_avail[work[k]] = AvailTrue => bstate.kind = "ncapi"

\* C11 witness: a second NCAPI stage runs on a record the first left Available
\* while another record, which the first made Premium or Unavailable, is left out.
C11_Witness ==
    /\ pc = "batch" /\ bstate.kind = "ncapi" /\ stage > 1
    /\ \E k \in 1..Len(work) : barrier_avail[work[k]] = AvailTrue
    /\ \E i \in 1..N : /\ barrier_avail[i] \in {AvailPremium, AvailFalse}
                       /\ i \notin Range(work)


\* the single-domain stage made record i Unavailable: the last check recorded
\* for it left it so
MadeUnavailable(i) ==
    trace[i] # <<>> /\ trace[i][Len(trace[i])].is_available = AvailFalse

\* the check that made record i Unavailable
VerdictMethod(i) == trace[i][Len(trace[i])].method

\* the checks that have run on record i
MethodsRun(i) == {trace[i][k].method : k \in 1..Len(trace[i])}

\* a record the single-domain stage made Unavailable is in no batch working
\* set and no step of the batch stages changes any of its fields
UntouchedByBatch(i) ==
    /\ MadeUnavailable(i)' => i \notin Range(work')
    /\ (MadeUnavailable(i) /\ pc = "batch") => ds'[i] = ds[i]

SingleStageOver ==
    /\ \A i \in 1..N : methods_sequence # <<>> => Finished(i)
    /\ \A i \in 1..N : Collected(i)

\* no task of a batch check is still to run or running
NoBatchTaskPending ==
    \/ bstate.kind = "idle"
    \/ /\ bstate.phase = "return"
       /\ bstate.kind = "domainr" =>
             /\ \A j \in DOMAIN bstate.tasks : bstate.tasks[j] = "done"
             /\ bstate.progress = Len(work)

\* C13: stages are barriers.  A working set is computed, and the sort is done,
\* only when the single-domain stage is over for every domain and no batch check
\* is running; a batch check returns only when all its tasks, the Domainr workers
\* included, have finished; and a step that changes a record belongs to the one
\* stage that is running: a single-domain check before the first working set, or
\* the current batch check acting on a record of its working set.
C13_StagesAreBarriers ==
    [][/\ (work' # work \/ sorted_domain_statuses' # sorted_domain_statuses
           \/ stage' # stage \/ pc' # pc)
          => (SingleStageOver /\ NoBatchTaskPending)
       /\ (bstate'.kind # "idle" /\ bstate'.phase = "return") => NoBatchTaskPending'
       /\ ds' # ds =>
             \/ pc = "single" /\ bstate.kind = "idle" /\ work = <<>>
             \/ /\ pc = "batch" /\ SingleStageOver
                /\ bstate.kind = batch_methods[stage] /\ bstate.phase # "return"
                /\ \A i \in DOMAIN ds : ds'[i] # ds[i] => i \in Range(work)]_vars

\* C13 witness: a Domainr stage that followed another batch stage has joined its
\* two workers, both of which changed a record.
C13_Witness ==
    /\ pc = "batch" /\ stage > 1
    /\ bstate.kind = "domainr" /\ bstate.phase = "return"
    /\ Len(work) = 2
    /\ \A k \in 1..Len(work) : ds[work[k]].is_available # PyNone


\* the class priority the ordering is to follow
ClassPriority(r) ==
    CASE r.is_available = AvailTrue /\ ~r.restriction_flag -> 1
      [] r.is_available = AvailTrue /\ r.restriction_flag -> 2
      [] r.is_available = AvailPremium -> 3
      [] r.is_available = AvailFalse -> 4
      [] OTHER -> 5

\* the prices of SortPrices in ascending numeric order, the non-numeric last
PriceRank(price) ==
    CASE price = "5" -> 1
      [] price = "9.99" -> 2
      [] price = "12.5" -> 3
      [] OTHER -> 4

\* C14: the final sequence is a permutation of the records, ascending by class
\* priority (Available unrestricted, Available restricted, Premium,
\* Unavailable, Unknown) and within a class by numeric price, records without a
\* numeric price last.
C14_SortedByClassAndPrice ==
    pc = "done" =>
        /\ Len(sorted_domain_statuses) = Len(domain_statuses)
        /\ \A i \in Range(domain_statuses) :
              Cardinality({k \in 1..Len(sorted_domain_statuses) :
                              sorted_domain_statuses[k] = i}) = 1
        /\ \A k \in 1..(Len(sorted_domain_statuses) - 1) :
              LET a == ds[sorted_domain_statuses[k]]
                  b == ds[sorted_domain_statuses[k + 1]]
              IN  \/ ClassPriority(a) < ClassPriority(b)
                  \/ /\ ClassPriority(a) = ClassPriority(b)
                     /\ PriceRank(a.price) <= PriceRank(b.price)

\* C14 witness: three records given in descending order come out reversed, the
\* prices 9.99 and 12.5 of one class in numeric order.
C14_Witness ==
    /\ pc = "done" /\ Len(domain_statuses) = 3
    /\ sorted_domain_statuses = <<3, 2, 1>>
    /\ ds[3].is_available = AvailPremium /\ ds[3].price = "9.99"
    /\ ds[2].is_available = AvailPremium /\ ds[2].price = "12.5"
    /\ ds[1].is_available = PyNone


\* the reason the structural check is to give for the domains it rejects
RejectionReason(domain) ==
    CASE domain = "ab" -> "Invalid domain format"
      [] domain = "ab.xx" -> "TLD not recognized"
      [] domain = "ab.gov" -> "TLD cannot be registered"
      [] OTHER -> ""

\* C15: when the structural check runs on a domain without a dot, with a suffix
\* that is not in the rule table or with a suffix that cannot be registered, it
\* makes the record Unavailable and returns 'verdict reached'; no check runs
\* after it and the record stays Unavailable with the specific reason up to the
\* end of the run.
C15_StructuralRejectionFinal ==
    \A i \in DOMAIN trace :
       \A k \in 1..Len(trace[i]) :
          (trace[i][k].method = "tld" /\ RejectionReason(domains[i]) # "") =>
              /\ trace[i][k].ret
              /\ trace[i][k].is_available = AvailFalse
              /\ k = Len(trace[i])
              /\ ds[i].is_available = AvailFalse
              /\ Contains(ds[i].reason, RejectionReason(domains[i]))
              /\ ds[i].checked_apis = <<>>

\* C15 witness: the run with every check configured is over; the structural
\* check rejected the suffix that cannot be registered, with the restriction text
\* cut at the cap, and nothing ran on the record after it.
C15_Witness ==
    /\ pc = "done" /\ Len(batch_methods) = 3
    /\ domains[1] = "ab.gov"
    /\ Len(trace[1]) = 1 /\ trace[1][1].method = "tld"
    /\ ds[1].is_available = AvailFalse
    /\ Len(ds[1].reason) = REASON_CAP


\* the label and the rule of the domain the check harness works on
LabelOf(domain) == SubSeq(domain, 1, LastDot(domain) - 1)
RuleOf(domain) ==
    LET tld == Lower(SubSeq(domain, LastDot(domain) + 1, Len(domain)))
    IN  IF LastDot(domain) # 0 /\ tld \in DOMAIN tlds_dict THEN tlds_dict[tld] ELSE EmptyDict

\* the rule is one of a registrable suffix and gives both lengths as numbers
HasLengthRule(rule) ==
    /\ rule # EmptyDict
    /\ rule.can_register
    /\ IsDigits(rule.min_length) /\ IsDigits(rule.max_length)

\* C16 (as stated): for a domain with a recognized, registrable suffix, the
\* structural check sets Unavailable whenever the label is shorter than the
\* rule table's min_length or longer than its max_length, and leaves the
\* availability Unknown only when the length is within the two.
C16_LengthWithinRule ==
    (last_call.op = "TLDCheck" /\ last_call.before.is_available = PyNone
     /\ HasLengthRule(RuleOf(domains[1]))) =>
        LET rule == RuleOf(domains[1])
            length == Len(LabelOf(domains[1]))
            within == /\ DigitsValue(rule.min_length) <= length
                      /\ length <= DigitsValue(rule.max_length)
        IN  /\ ~within => ds[1].is_available = AvailFalse
            /\ within => ds[1].is_available = PyNone


\* C17 (as stated): if the resolver has a record of any of the types A, MX, NS
\* for the domain, the DNS check makes the record Unavailable and returns
\* 'verdict reached', whatever the lookups of the other types give, a type
\* queried earlier having no answer included.
C17_AnyRecordFound ==
    (last_call.op = "DNSCheck"
     /\ \E k \in 1..Len(record_types) : last_call.answers[k] = "found") =>
        /\ last_call.ret
        /\ ds[1].is_available = AvailFalse


\* the last single-domain check on record i was WHOIS and left it so
AfterWhois(i, is_available) ==
    /\ trace[i] # <<>>
    /\ trace[i][Len(trace[i])].method = "whois"
    /\ trace[i][Len(trace[i])].is_available = is_available

\* Gandi's stream reported premium with price '1200' for the domain
GandiReportsPremium1200(b, domain) ==
    /\ Get(b.domain_availability, domain, PyNone) = "premium"
    /\ Get(b.domain_prices, domain, PyNone) = "1200"

\* the record is Premium with price '1200' and Gandi's reason alone
GandiPremium1200(r) ==
    /\ r.is_available = AvailPremium
    /\ r.price = "1200"
    /\ r.reason = "Domain is premium and available (GandiAPICheck)"

\* C18 (as stated): a record that is Available after the WHOIS check and for
\* which Gandi's source reports premium with price '1200' ends the run as Premium
\* with price '1200', the Available reason replaced.  Stated where Gandi is the
\* last stage and has made the update of its batch, after which only the sort
\* follows.
C18_AvailableUpgradedByGandi ==
    (/\ pc = "batch" /\ bstate.kind = "gandi" /\ bstate.phase = "return"
     /\ stage = Len(batch_methods)
     /\ bstate.i + bstate.j = Len(work)) =>
        \A i \in DOMAIN ds :
           (AfterWhois(i, AvailTrue) /\ GandiReportsPremium1200(bstate, ds[i].domain))
               => GandiPremium1200(ds[i])

\* C18 (amended): a record that is Available after the WHOIS check is not
\* handed to Gandi and no step of the Gandi stage changes it, whatever the
\* source reports for its domain.  A record that is Unknown when the Gandi stage
\* starts and for which the source reports premium with price '1200' is made
\* Premium with price '1200', its earlier reason fully replaced, and a record
\* that is Premium when a stage ends is changed by no later step of the run.
C18_UnknownUpgradedByGandi ==
    [][/\ bstate.kind = "gandi" =>
             \A i \in DOMAIN ds : barrier_avail[i] = AvailTrue => ds'[i] = ds[i]
       /\ (bstate.kind = "gandi" /\ bstate.phase = "update") =>
             LET k == work[bstate.i + bstate.j]
             IN  GandiReportsPremium1200(bstate, ds[k].domain) => GandiPremium1200(ds'[k])
       /\ \A i \in DOMAIN ds :
             (pc = "batch" /\ barrier_avail[i] = AvailPremium) => ds'[i] = ds[i]]_vars

\* C18 witness: the run is over; of two records of one domain, the one WHOIS
\* left Unknown was upgraded by Gandi and the one WHOIS made Available was not.
C18_Witness ==
    /\ pc = "done" /\ N = 2
    /\ \E i, j \in DOMAIN ds :
          /\ AfterWhois(i, PyNone) /\ GandiPremium1200(ds[i])
          /\ AfterWhois(j, AvailTrue) /\ ds[j].is_available = AvailTrue
          /\ ds[j].checked_apis = <<>>


\* C19 (as stated): in Gandi's stream parse a malformed data line after an event
\* header, or a header without a data line, only skips that pair: when the parse
\* of a batch for which well-formed events were read ends, whatever ends it, the
\* update of the batch follows with everything those events gave.
C19_MalformedPairSkipped ==
    [][(/\ bstate.kind = "gandi" /\ bstate.phase = "stream"
        /\ DOMAIN bstate.domain_availability # {}
        /\ bstate'.phase # "stream") =>
           /\ bstate'.phase = "update"
           /\ bstate'.domain_availability = bstate.domain_availability
           /\ bstate'.domain_prices = bstate.domain_prices]_vars


OneRecordPerEntry ==
    /\ Len(sorted_domain_statuses) = Len(domains)
    /\ \A i \in 1..Len(domains) :
          /\ ds[i].domain = domains[i]
          /\ Cardinality({k \in 1..Len(sorted_domain_statuses) :
                              sorted_domain_statuses[k] = i}) = 1

C22_WritesHoldLock ==
    [][\A i \in 1..Len(domains) :
          /\ ds'[i].tld_info = ds[i].tld_info
          /\ ds'[i].restriction_flag = ds[i].restriction_flag
          /\ ds'[i].checked_apis = ds[i].checked_apis]_vars


\* two workers of Domainr's pool, given the two entries of a list that names one
\* domain twice, have both appended to the checked_apis of the same record and
\* are both still running
C22_TwoWriters ==
    /\ bstate.kind = "domainr"
    /\ Len(work) = 2
    /\ bstate.tasks[1] \notin {"queued", "done"}
    /\ bstate.tasks[2] \notin {"queued", "done"}
    /\ \E k \in 1..Len(domains) :
          Len(SelectSeq(ds[k].checked_apis, LAMBDA a : a = "DomainrAPICheck")) = 2


\* C23: if every enabled check is inconclusive for a domain, the record ends
\* Unknown and its reason is the '; '-joined sequence of the notes
\* '<note> (<source>)' of the stages that wrote one, in the order the stages
\* ran, capped at 140 characters.  (No check ever sets a record back to Unknown,
\* so the records every check was inconclusive for are those Unknown at the end.)
StagesRun == methods_sequence \o batch_methods

SourceOf(method) ==
    CASE method = "whois" -> "WHOISCheck"
      [] method = "ncapi" -> "NCAPICheck"
      [] method = "gandi" -> "GandiAPICheck"
      [] method = "domainr" -> "DomainrAPICheck"
      [] OTHER -> ""

\* the notes one stage can leave on a record it was inconclusive for; <<>>
\* stands for none (a failed request, or a response without the domain)
StageNotes(method) ==
    CASE method = "whois" -> {<<"WHOIS data inconclusive (WHOISCheck)">>,
                              <<"WHOIS data empty (WHOISCheck)">>,
                              <<"WHOIS error (WHOISCheck)">>}
      [] method = "ncapi" -> {<<>>, <<"Inconclusive (NCAPICheck)">>}
      [] method = "gandi" -> {<<>>, <<"Inconclusive (GandiAPICheck)">>}
      [] method = "domainr" -> {<<>>, <<"marketed (DomainrAPICheck)">>}
      [] OTHER -> {<<>>}

\* ... and when a source processes the record once for every item of its
\* response, or every task of its pool, that names the record's domain
StageNotesRepeated(method) ==
    StageNotes(method)
    \cup (IF method \in {"ncapi", "domainr"}
          THEN {n \o n : n \in StageNotes(method)} ELSE {})

RECURSIVE NoteTrails(_, _)
NoteTrails(k, repeated) ==
    IF k = 0 THEN {<<>>}
    ELSE {t \o n : t \in NoteTrails(k - 1, repeated),
                   n \in IF repeated THEN StageNotesRepeated(StagesRun[k])
                         ELSE StageNotes(StagesRun[k])}

RECURSIVE JoinNotes(_, _)
JoinNotes(notes, k) ==
    IF k > Len(notes) THEN ""
    ELSE (IF k > 1 THEN "; " ELSE "") \o notes[k] \o JoinNotes(notes, k + 1)

NotesOf(notes, source) ==
    Len(SelectSeq(notes, LAMBDA n : Contains(n, "(" \o source \o ")")))

\* the trails in which a batch source has a note for each time it processed
\* the record
TrailsOf(i, repeated) ==
    {t \in NoteTrails(Len(StagesRun), repeated) :
        \A m \in BatchMethods :
            NotesOf(t, SourceOf(m)) =
                Len(SelectSeq(ds[i].checked_apis, LAMBDA a : a = SourceOf(m)))}

ReasonIsTrail(i, repeated) ==
    \E t \in TrailsOf(i, repeated) :
        /\ ds[i].reason = Cap(JoinNotes(t, 1))
        /\ Len(ds[i].reason) <= REASON_CAP

\* C23 (as stated): each stage leaves at most one note on the record
C23_InconclusiveTrail ==
    pc = "done" =>
        \A i \in 1..Len(domains) :
            ds[i].is_available = PyNone => ReasonIsTrail(i, FALSE)

\* C23 (amended): ... the '; '-joined sequence of the notes written on the
\* record, one for each time a stage processed it, in the order the stages ran,
\* capped at 140 characters: a response that lists the domain twice, or a
\* working set that holds the domain twice, leaves the first record of that
\* domain two notes of the same source.
C23_InconclusiveTrailRepeated ==
    pc = "done" =>
        \A i \in 1..Len(domains) :
            ds[i].is_available = PyNone => ReasonIsTrail(i, TRUE)

\* a record every check was inconclusive for, with the notes of WHOIS and of
\* two batch stages
C23_Witness ==
    /\ pc = "done"
    /\ \E i \in 1..Len(domains) :
          /\ ds[i].is_available = PyNone
          /\ ds[i].reason = "WHOIS error (WHOISCheck); Inconclusive (NCAPICheck); "
                            \o "Inconclusive (GandiAPICheck); marketed (DomainrAPICheck)"


\* C24 (as stated): whichever checks are enabled and however the selection is
\* written, the checks applied to a record run in the relative order TLD, DNS,
\* WHOIS, NCAPI, Gandi, Domainr, each at most once per record.
RankOf(name) ==
    CASE name \in {"tld"} -> 1
      [] name \in {"dns"} -> 2
      [] name \in {"whois"} -> 3
      [] name \in {"ncapi", "NCAPICheck"} -> 4
      [] name \in {"gandi", "GandiAPICheck"} -> 5
      [] name \in {"domainr", "DomainrAPICheck"} -> 6

\* the checks that have run on record i, in the order they ran
ChecksApplied(i) ==
    [k \in 1..Len(trace[i]) |-> RankOf(trace[i][k].method)]
    \o [k \in 1..Len(ds[i].checked_apis) |-> RankOf(ds[i].checked_apis[k])]

C24_FixedOrderOnce ==
    \A i \in 1..Len(domains) :
        \A a, b \in 1..Len(ChecksApplied(i)) :
            a < b => ChecksApplied(i)[a] < ChecksApplied(i)[b]

\* --methods whois,tld: WHOIS has run on a record before the TLD check
C24_WhoisBeforeTld ==
    \E i \in 1..Len(domains) :
        /\ Len(trace[i]) = 2
        /\ trace[i][1].method = "whois"
        /\ trace[i][2].method = "tld"


\* C25: for each item of a successful NCAPI response that names a record of the
\* working set: source 'n/a' leaves the availability unchanged and only appends
\* an inconclusive note; otherwise available with premium gives Premium,
\* available without premium gives Available, and not available gives
\* Unavailable whatever the premium flag; the quoted average price is stored
\* only for Premium and Available.
C25_NcapiItemMapping ==
    (last_call.op = "ncapi_item" /\ last_call.domain_info.domain = "ab.nl") =>
        LET item == last_call.domain_info
            before == last_call.before
            quoted == "average_price" \in DOMAIN item
        IN  /\ ds[1].checked_apis = Append(before.checked_apis, "NCAPICheck")
            /\ IF item.source = "n/a"
               THEN /\ ds[1].is_available = before.is_available
                    /\ ds[1].price = before.price
                    /\ ds[1].reason =
                          IF before.is_available # PyNone THEN before.reason
                          ELSE IF before.reason = "" THEN "Inconclusive (NCAPICheck)"
                          ELSE before.reason \o "; Inconclusive (NCAPICheck)"
               ELSE /\ ds[1].is_available =
                          IF item.available
                          THEN (IF item.premium THEN AvailPremium ELSE AvailTrue)
                          ELSE AvailFalse
                    /\ ds[1].price =
                          IF item.available /\ quoted THEN item.average_price
                          ELSE before.price

\* an item 'available, premium, average price 1200' made an Available record
\* priced 7.50 Premium at 1200
C25_Witness ==
    /\ last_call.op = "ncapi_item"
    /\ last_call.domain_info.domain = "ab.nl"
    /\ last_call.domain_info.source # "n/a"
    /\ "average_price" \in DOMAIN last_call.domain_info
    /\ last_call.domain_info.premium
    /\ last_call.domain_info.available
    /\ last_call.before.is_available = AvailTrue
    /\ last_call.before.price = "7.50"
    /\ ds[1].is_available = AvailPremium
    /\ ds[1].price = "1200"


\* C26: when the NCAPI request of one batch fails (a status other than 200, a
\* response without 'status', or an exception before any item is processed),
\* exactly one entry is appended to the error list, no record of that batch
\* changes, and every later batch of the working set is still requested and
\* processed.
NcapiBatchFails ==
    /\ bstate.kind = "ncapi"
    /\ bstate.phase = "request" \/ (bstate.phase = "items" /\ bstate.nitems = 0)
    /\ bstate'.phase # "items"
    /\ ~(bstate.phase = "items" /\ error_messages' = error_messages)

C26_FailedBatchSkipped ==
    [][/\ (bstate.kind = "ncapi" /\ bstate.phase = "request") => ds' = ds
       /\ NcapiBatchFails =>
             /\ Len(error_messages') = Len(error_messages) + 1
             /\ SubSeq(error_messages', 1, Len(error_messages)) = error_messages
             /\ ds' = ds
             /\ IF bstate.i + bstate.batch_size < Len(work)
                THEN /\ bstate'.phase = "request"
                     /\ bstate'.i = bstate.i + bstate.batch_size
                ELSE bstate'.phase = "return"]_vars

\* the request of the first batch failed, its record is as it was, and the
\* second batch was requested and its record updated
C26_Witness ==
    /\ bstate.kind = "ncapi" /\ bstate.phase = "return"
    /\ bstate.batch_size < Len(work)
    /\ Len(error_messages) = 1
    /\ ds[1].checked_apis = <<>>
    /\ ds[1].is_available = barrier_avail[1]
    /\ ds[2].checked_apis = <<"NCAPICheck">>
    /\ ds[2].is_available = AvailPremium


\* C27: after a successfully parsed Gandi stream each record of the batch is
\* updated from the last availability event seen for its domain: 'available'
\* gives Available unless the record is already Premium (then it is left as it
\* is), 'unavailable' or 'invalid' gives Unavailable, premium flag 1 gives
\* Premium with the 'create' price when one was seen, and any other or missing
\* value leaves the availability unchanged and appends an inconclusive note.
GandiEventValues == {"premium", "available", "unavailable", "invalid", "pending", PyNone}

\* an availability event replaces what was kept for its domain, and only that
GandiDasOverwrites ==
    (/\ bstate.kind = "gandi" /\ bstate.phase = "stream" /\ bstate'.phase = "stream"
     /\ bstate'.domain_availability # bstate.domain_availability) =>
        \E fqdn \in BatchOf(bstate.i) \cup Unrequested, v \in GandiEventValues :
            /\ bstate'.domain_availability = DictSet(bstate.domain_availability, fqdn, v)
            /\ bstate'.domain_prices = bstate.domain_prices

GandiRecordUpdated ==
    (bstate.kind = "gandi" /\ bstate.phase = "update") =>
        LET k == work[bstate.i + bstate.j]
            seen == Get(bstate.domain_availability, ds[k].domain, PyNone)
            create == Get(bstate.domain_prices, ds[k].domain, PyNone)
            priced == IF create # PyNone THEN create ELSE ds[k].price
            noted == IF ds[k].is_available # PyNone THEN ds[k].reason
                     ELSE IF ds[k].reason = "" THEN "Inconclusive (GandiAPICheck)"
                     ELSE ds[k].reason \o "; Inconclusive (GandiAPICheck)"
        IN  /\ \A i \in 1..Len(domains) : i # k => ds'[i] = ds[i]
            /\ ds'[k].checked_apis = Append(ds[k].checked_apis, "GandiAPICheck")
            /\ CASE seen = "available" /\ ds[k].is_available = AvailPremium ->
                        /\ ds'[k].is_available = AvailPremium
                        /\ ds'[k].price = ds[k].price
                        /\ ds'[k].reason = ds[k].reason
                 [] seen = "available" /\ ds[k].is_available # AvailPremium ->
                        /\ ds'[k].is_available = AvailTrue
                        /\ ds'[k].price = priced
                 [] seen \in {"unavailable", "invalid"} ->
                        /\ ds'[k].is_available = AvailFalse
                        /\ ds'[k].price = ds[k].price
                 [] seen = "premium" ->
                        /\ ds'[k].is_available = AvailPremium
                        /\ ds'[k].price = priced
                 [] OTHER ->
                        /\ ds'[k].is_available = ds[k].is_available
                        /\ ds'[k].price = ds[k].price
                        /\ ds'[k].reason = noted

\* C27: the two parts above hold of every step of a run
C27_GandiMapping == [][GandiDasOverwrites /\ GandiRecordUpdated]_vars

\* two events were read, the premium flag and the create price 1200 of a domain,
\* and its record, Unknown before the stage, is Premium at 1200
C27_Witness ==
    /\ bstate.kind = "gandi" /\ bstate.phase = "return"
    /\ bstate.nevents = 2
    /\ \E i \in 1..Len(domains) :
          /\ Get(bstate.domain_availability, ds[i].domain, PyNone) = "premium"
          /\ Get(bstate.domain_prices, ds[i].domain, PyNone) = "1200"
          /\ barrier_avail[i] = PyNone
          /\ ds[i].is_available = AvailPremium
          /\ ds[i].price = "1200"


\* C28 (as stated): in Domainr's check a summary of 'inactive' or 'undelegated'
\* sets the record Available only if its availability is Unknown at the moment
\* of the write (and other summaries set Unavailable or append a reason): every
\* write of Available by a Domainr task finds the record Unknown.
C28_ConfirmOnlyUnknown ==
    [][\A j \in 1..Len(domains) :
          (/\ bstate.kind = "domainr" /\ bstate.phase = "run"
           /\ j \in DOMAIN bstate.tasks
           /\ bstate.tasks[j] = "set" /\ bstate'.tasks[j] # "set") =>
              ds[FirstMatch(work, ds[work[j]].domain)].is_available = PyNone]_vars

\* a task that saw its record Unknown is about to write Available on a record
\* that another task of the pool has meanwhile made Unavailable
C28_StaleConfirm ==
    /\ bstate.kind = "domainr" /\ bstate.phase = "run"
    /\ \E j \in DOMAIN bstate.tasks :
          /\ bstate.tasks[j] = "set"
          /\ ds[FirstMatch(work, ds[work[j]].domain)].is_available = AvailFalse


\* C29 (as stated): when Domainr's check receives summary 'premium' the record
\* becomes Premium and its price is the response's average price (1200 in the
\* model) if the response carries a real one, otherwise exactly what it was
\* before the call.
C29_PremiumPriceRetained ==
    [][\A j \in 1..Len(domains) :
          (/\ bstate.kind = "domainr" /\ bstate.phase = "run"
           /\ j \in DOMAIN bstate.tasks
           /\ bstate.tasks[j] = "premium" /\ bstate'.tasks[j] # "premium") =>
              LET k == FirstMatch(work, ds[work[j]].domain)
              IN  /\ ds'[k].is_available = AvailPremium
                  /\ ds'[k].price \in {"1200", ds[k].price}]_vars

\* a task that received 'premium' without a price has read the record's price
\* and is about to write it back over the price another task has stored since
C29_StalePrice ==
    /\ bstate.kind = "domainr" /\ bstate.phase = "run"
    /\ \E j \in DOMAIN bstate.tasks :
          /\ bstate.tasks[j] = "premium"
          /\ bstate.price[j] \notin {"1200", "N/A"}
          /\ ds[FirstMatch(work, ds[work[j]].domain)].price = "1200"


\* C30: when DomainrAPICheck.run returns, the progress counter equals the
\* number of records in its working set, for every interleaving of the pool
\* workers and whether each remote call succeeded, returned a status other than
\* 200 or raised; no increment is lost.
C30_ProgressCountsAll ==
    bstate.kind = "domainr" =>
        /\ bstate.progress =
              Cardinality({j \in DOMAIN bstate.tasks : bstate.tasks[j] = "done"})
        /\ bstate.phase = "return" => bstate.progress = Len(work)

\* run returns from a working set of two records, one call having raised or
\* returned a status other than 200 and the other having updated its record
C30_Witness ==
    /\ bstate.kind = "domainr" /\ bstate.phase = "return"
    /\ Len(work) = 2
    /\ bstate.progress = 2
    /\ Len(error_messages) = 1
    /\ \E i \in 1..Len(domains) : "DomainrAPICheck" \in Range(ds[i].checked_apis)


\* C31: appends to the error list are safe under concurrency: when Domainr's
\* check returns, the error list has gained exactly one entry for each of its
\* remote calls that returned a status other than 200 or raised, for every
\* interleaving of the pool workers; no entry is lost or duplicated.
DomainrErrorsOf(domain) ==
    {"DomainrAPICheck error for " \o domain \o ": timed out",
     "DomainrAPICheck API request failed for " \o domain \o " with status code 500"}

C31_ErrorPerFailedCall ==
    bstate.kind = "domainr" =>
        LET gained == SubSeq(error_messages, bstate.errors0 + 1, Len(error_messages))
        IN  /\ Len(error_messages) = bstate.errors0 + Cardinality(bstate.failed)
            /\ \A d \in Range(domains) :
                  Len(SelectSeq(gained, LAMBDA m : m \in DomainrErrorsOf(d))) =
                      Cardinality({j \in bstate.failed : ds[work[j]].domain = d})

\* run returns from a working set of two records after both calls failed, one
\* with a status other than 200 and one with an exception
C31_Witness ==
    /\ bstate.kind = "domainr" /\ bstate.phase = "return"
    /\ bstate.failed = {1, 2}
    /\ Len(error_messages) = bstate.errors0 + 2
    /\ \E a, b \in 1..2 :
          /\ error_messages[bstate.errors0 + 1] =
                "DomainrAPICheck error for " \o ds[work[a]].domain \o ": timed out"
          /\ error_messages[bstate.errors0 + 2] =
                "DomainrAPICheck API request failed for " \o ds[work[b]].domain
                \o " with status code 500"


\* C32 (as stated): when the DNS check sees the parking placeholder (a '.ws'
\* domain whose first A record is 64.70.19.203) the answer counts as no
\* evidence only: the check still examines MX and NS and sets Unavailable if one
\* of them has a record; it leaves the record unchanged only when no other type
\* has a record.
C32_ParkingIsNoEvidence ==
    (/\ last_call.op = "DNSCheck"
     /\ EndsWith(last_call.before.domain, ".ws")
     /\ last_call.before.is_available = PyNone
     /\ last_call.answers[1] = "parking") =>
        IF \E k \in 2..Len(record_types) : last_call.answers[k] = "found"
        THEN ds[1].is_available = AvailFalse /\ last_call.ret
        ELSE ds[1] = last_call.before /\ ~last_call.ret

\* the check met the placeholder for A, MX had records, and the record is as
\* it was
C32_ParkingEndsCheck ==
    /\ last_call.op = "DNSCheck"
    /\ last_call.before.domain = "ab.ws"
    /\ last_call.answers = <<"parking", "found", "found">>
    /\ ds[1] = last_call.before
    /\ ~last_call.ret


\* C33 (as stated): the WHOIS check classifies a raised error's message with
\* the same keyword sets and the same outcome as a raw text response: for every
\* string s, a lookup that raises an error with message s and a lookup that
\* returns text s without registration data leave the record with the same
\* availability.
OtherKind(response) ==
    [response EXCEPT !.kind = IF response.kind = "text" THEN "raise" ELSE "text"]

C33_ErrorClassifiedAsText ==
    (last_call.op = "WHOISCheck" /\ ~last_call.response.registered) =>
        ds[1].is_available =
            WHOISCheck_run(last_call.before, OtherKind(last_call.response)).ds.is_available

\* a lookup on an Unknown record raised 'No match for domain' and the record is
\* Available, where the same string returned as text leaves it Unknown
C33_NoMatchRaised ==
    /\ last_call.op = "WHOISCheck"
    /\ last_call.before.is_available = PyNone
    /\ last_call.response = [kind |-> "raise", text |-> "No match for domain",
                             registered |-> FALSE]
    /\ ds[1].is_available = AvailTrue
    /\ WHOISCheck_run(last_call.before, OtherKind(last_call.response)).ds.is_available
           = PyNone


\* C34: each input entry has exactly one record and exactly one per-domain
\* task; the checks of a task run strictly one after another, in the order of
\* the sequence, and during the per-domain stage a record is changed only by a
\* step of its own task, which changes no other record and no other task.
OwnRecordAndTask(i) ==
    /\ ds[i].domain = domains[i]
    /\ Cardinality({k \in 1..Len(domain_statuses) : domain_statuses[k] = i}) <= 1
    /\ Collected(i) => Finished(i)
    /\ Len(trace[i]) <= Len(methods_sequence)
    /\ ~Finished(i) => Len(trace[i]) = task_pc[i] - 1
    /\ \A k \in 1..Len(trace[i]) : trace[i][k].method = methods_sequence[k]

OwnStep(i) ==
    /\ ~Finished(i) /\ ~Collected(i)
    /\ Len(trace'[i]) = Len(trace[i]) + 1
    /\ task_pc'[i] > task_pc[i]
    /\ \A j \in 1..Len(domains) \ {i} :
          ds'[j] = ds[j] /\ task_pc'[j] = task_pc[j] /\ trace'[j] = trace[j]

C34_OneTaskPerRecord ==
    /\ [](pc = "single" => \A i \in 1..Len(domains) : OwnRecordAndTask(i))
    /\ [][pc = "single" =>
             \A i \in 1..Len(domains) :
                 (ds'[i] # ds[i] \/ trace'[i] # trace[i] \/ task_pc'[i] # task_pc[i])
                     => OwnStep(i)]_vars

\* the two entries of a list that names one domain twice have a record each:
\* both tasks are under way, each has run one check of two, and the two
\* records hold different verdicts
C34_Witness ==
    /\ pc = "single"
    /\ Len(domains) = 2 /\ domains[1] = domains[2]
    /\ Len(methods_sequence) = 2
    /\ Len(trace[1]) = 1 /\ Len(trace[2]) = 1
    /\ ~Finished(1) /\ ~Finished(2)
    /\ ds[1].is_available # ds[2].is_available


\* C35 (as stated): in the Domainr stage every record of the working set is
\* processed by exactly one task and none by two, also when two records carry
\* the same domain string: a step of the task submitted for the j-th record
\* changes no record but the j-th.
C35_TaskChangesOwnRecord ==
    [][(pc = "batch" /\ bstate.kind = "domainr" /\ bstate'.kind = "domainr") =>
          \A j \in DOMAIN bstate.tasks :
              bstate'.tasks[j] # bstate.tasks[j] =>
                  \A k \in 1..Len(domains) \ {work[j]} : ds'[k] = ds[k]]_vars

\* both tasks of a working set of two records with the same domain string are
\* done: the first record was processed twice and the second not at all
C35_FirstRecordTwice ==
    /\ pc = "batch" /\ bstate.kind = "domainr"
    /\ Len(work) = 2
    /\ ds[work[1]].domain = ds[work[2]].domain
    /\ bstate.tasks[1] = "done" /\ bstate.tasks[2] = "done"
    /\ Len(SelectSeq(ds[work[1]].checked_apis, LAMBDA a : a = "DomainrAPICheck")) = 2
    /\ Len(SelectSeq(ds[work[2]].checked_apis, LAMBDA a : a = "DomainrAPICheck")) = 0
    /\ ds[work[2]].is_available = PyNone


\* C36: a batch check changes only records of the working set it was given:
\* no step of a batch check, whatever the response names, changes the
\* availability, price, reason or checked_apis of a record outside the set.
OutsideWork == (1..Len(domains)) \ Range(work)

C36_OnlyWorkingSetChanged ==
    [][(pc = "batch" /\ bstate.kind # "idle") =>
          \A k \in OutsideWork :
              /\ ds'[k].is_available = ds[k].is_available
              /\ ds'[k].price = ds[k].price
              /\ ds'[k].reason = ds[k].reason
              /\ ds'[k].checked_apis = ds[k].checked_apis]_vars

\* NCAPI was handed one of two records and its response had two items, of
\* which one named the record (one note in checked_apis) and the other a domain
\* that was not asked for; the record outside the working set is Unavailable as
\* it was and no batch check has consulted it
C36_Witness ==
    /\ pc = "batch" /\ bstate.kind = "ncapi" /\ bstate.phase = "items"
    /\ bstate.nitems = 2
    /\ Len(domains) = 2 /\ Len(work) = 1
    /\ ds[work[1]].checked_apis = <<"NCAPICheck">>
    /\ \A k \in OutsideWork :
          /\ ds[k].is_available = AvailFalse
          /\ ds[k].checked_apis = <<>>


\* C37 (as stated): the presented status agrees with the sort class: in the
\* sorted sequence every record presented as 'Available' comes before every
\* record presented as 'Premium', and the status filter shows or hides a record
\* by the class that ordered it.
SortClass(r) ==
    CASE get_sort_key(r)[1] \in {1, 2} -> "available"
      [] get_sort_key(r)[1] = 3 -> "premium"
      [] get_sort_key(r)[1] = 4 -> "unavailable"
      [] OTHER -> "unknown"

ShownByClass(r, show, hide) ==
    /\ show # <<>> => SortClass(r) \in {Lower(show[k]) : k \in 1..Len(show)}
    /\ hide # <<>> => SortClass(r) \notin {Lower(hide[k]) : k \in 1..Len(hide)}

C37_PresentedAsOrdered ==
    /\ pc \in {"done", "shown"} =>
          \A k1, k2 \in 1..Len(sorted_domain_statuses) :
              (/\ get_plain_availability(ds[sorted_domain_statuses[k1]]) = "Available"
               /\ get_plain_availability(ds[sorted_domain_statuses[k2]]) = "Premium")
                  => k1 < k2
    /\ pc = "shown" =>
          \A k \in Range(sorted_domain_statuses) :
              k \in Range(last_call.filtered_statuses)
                  <=> ShownByClass(ds[k], last_call.show_status, last_call.hide_status)

\* a cheaper Available record of a TLD flagged premium was sorted first and is
\* presented as 'Premium' before a record presented as 'Available'; with
\* --show-status available the filter has dropped it
C37_PremiumFlagFirst ==
    /\ pc = "shown"
    /\ sorted_domain_statuses = <<2, 1>>
    /\ ds[2].is_available = AvailTrue /\ ds[1].is_available = AvailTrue
    /\ ds[2].price = "5" /\ ds[1].price = "N/A"
    /\ get_plain_availability(ds[2]) = "Premium"
    /\ get_plain_availability(ds[1]) = "Available"
    /\ last_call.show_status = <<"available">> /\ last_call.hide_status = <<>>
    /\ last_call.filtered_statuses = <<1>>


\* C38 (as stated): every Domainr call leaves a trace: when the task of a
\* record has made its call and goes to its end without a further call on the
\* record, the availability or the reason of the record it looked up has
\* changed or an entry has been appended to the error list.
C38_CallLeavesTrace ==
    [][(pc = "batch" /\ bstate.kind = "domainr" /\ bstate'.kind = "domainr") =>
          \A j \in DOMAIN bstate.tasks :
              (bstate.tasks[j] = "queued" /\ bstate'.tasks[j] = "finally") =>
                  LET k == FirstMatch(work, ds[work[j]].domain)
                  IN  \/ ds'[k].is_available # ds[k].is_available
                      \/ ds'[k].reason # ds[k].reason
                      \/ Len(error_messages') > Len(error_messages)]_vars

\* the only task of a Domainr check is done, its response had status 200 and an
\* empty status list: the record is Unknown as before, it does not even list
\* Domainr among the sources consulted, and the error list has gained nothing
C38_EmptyStatusDropped ==
    /\ pc = "batch" /\ bstate.kind = "domainr"
    /\ Len(work) = 1
    /\ bstate.tasks[1] = "done"
    /\ bstate.failed = {}
    /\ Len(error_messages) = bstate.errors0
    /\ ds[work[1]].is_available = PyNone
    /\ "DomainrAPICheck" \notin Range(ds[work[1]].checked_apis)
    /\ ~Contains(ds[work[1]].reason, "DomainrAPICheck")

====
